---- MODULE Spec2Model ----
(***************************************************************************)
(* A model of the tile-map core of suzu: the per-actor speed store, the    *)
(* delayed-event list and its flush loops, and the customer state machine  *)
(* (Ready / Moving / WaitOnClerk / WaitOnBookShelf) of map_object.rs.      *)
(*                                                                         *)
(* Lengths are fixed-point integers: one model unit is 0.1 map pixel, so   *)
(* the walking speed 1.4 is 14 and the arrival radius 1.5 is 15.           *)
(***************************************************************************)
EXTENDS Integers, Sequences, FiniteSets, TLC

VARIABLES
    speed_info,      \* SpeedSpec: one TextureSpeedInfo
    owner,           \* SchedSpec: one owner of a DelayEventList and its run log
    sched_clock,     \* SchedSpec: the tick the owner's host loop is at
    customer,        \* Spec: one CustomerCharacter
    clock,           \* Spec: ShopScene.clock
    last_op,         \* history: the operation that produced the current state
    n_forced,        \* history: set_destination_forced calls so far
    n_idle,          \* history: frames skipped so far
    enq_log,         \* history: waypoints enqueued since the queue was last cleared
    goal_log,        \* history: values taken by current_goal since that clear
    forced_at,       \* history: clock of the last set_destination_forced that found a route
    player,          \* CollisionSpec: the MapObject of ShopScene.player
    npc,             \* CollisionSpec: the MapObject of the one other character
    query_info,      \* CollisionSpec: the CollisionInformation of the last query
    fix_result,      \* CollisionSpec: what the two fix calls on it gave
    n_moves,         \* history: frames the player has been moved
    last_arg,        \* history: the argument of the last call made on the player
    resist_info,     \* ResistSpec: one TextureSpeedInfo of object.rs
    resist_clock,    \* ResistSpec: the tick apply_resistance is called with next
    map_query,       \* TileMapSpec: the arguments of the last call on a tile map
    map_result,      \* TileMapSpec: what that call returned
    dream_scene,     \* SceneSpec: the player and the clock of one DreamScene
    shop,            \* ShopSpec, DayEndSpec: one ShopScene with its customers
    notification,    \* NotifySpec: one NotificationArea and its clock
    dialogue,        \* DialogueSpec: one customer dialogue of the task table
    animation,       \* AnimationSpec: one TextureAnimation
    desk,            \* DeskSpec: TaskTable.dropping_to_desk and the last result
    save_scene       \* SaveSpec: one SaveScene

vars == << speed_info, owner, sched_clock, customer, clock, last_op,
           n_forced, n_idle, enq_log, goal_log, forced_at,
           player, npc, query_info, fix_result, n_moves, last_arg,
           resist_info, resist_clock, map_query, map_result, dream_scene,
           shop, notification, dialogue, animation, desk, save_scene >>

----------------------------------------------------------------------------
(* Values *)

\* Option<T>: None is the empty tuple, Some(v) the one-element tuple
None == << >>

Some(v) == << v >>

unwrap(opt) == opt[1]

Vec(x, y) == [x |-> x, y |-> y]

Abs(n) == IF n < 0 THEN -n ELSE n

----------------------------------------------------------------------------
(* SpeedBorder and TextureSpeedInfo *)

round_speed_x(border, speed) ==
    IF speed > border.positive_x THEN border.positive_x
    ELSE IF speed < border.negative_x THEN border.negative_x
    ELSE speed

round_speed_y(border, speed) ==
    IF speed > border.positive_y THEN border.positive_y
    ELSE IF speed < border.negative_y THEN border.negative_y
    ELSE speed

TextureSpeedInfo_new(speed, border) == [speed |-> speed, speed_border |-> border]

add_speed(info, speed) ==
    [info EXCEPT !.speed = Vec(@.x + speed.x, @.y + speed.y)]

set_speed(info, speed) == [info EXCEPT !.speed = speed]

set_speed_x(info, speed) ==
    [info EXCEPT !.speed.x = round_speed_x(info.speed_border, speed)]

set_speed_y(info, speed) ==
    [info EXCEPT !.speed.y = round_speed_y(info.speed_border, speed)]

get_speed(info) == info.speed

\* TextureSpeedInfo of object.rs, which has gravity and a horizontal resistance
TextureSpeedInfo_new_with_resistance(gravity_acc, horizon_res, speed, border) ==
    [fall_begin         |-> 0,
     gravity_acc        |-> gravity_acc,
     horizon_resistance |-> horizon_res,
     speed              |-> speed,
     speed_border       |-> border]

\* takes the step off whatever the speed is
apply_resistance_overshoots(info, t) ==
    LET fallen == set_speed_y(info, info.speed.y + info.gravity_acc * (t - info.fall_begin)) IN
    IF fallen.speed.x = 0
    THEN set_speed_x(fallen, 0)
    ELSE set_speed_x(fallen, fallen.speed.x + IF fallen.speed.x > 0
                                              THEN -fallen.horizon_resistance
                                              ELSE fallen.horizon_resistance)

apply_resistance(info, t) ==
    LET fallen == set_speed_y(info, info.speed.y + info.gravity_acc * (t - info.fall_begin)) IN
    IF Abs(fallen.speed.x) <= fallen.horizon_resistance
    THEN set_speed_x(fallen, 0)
    ELSE set_speed_x(fallen, fallen.speed.x + IF fallen.speed.x > 0
                                              THEN -fallen.horizon_resistance
                                              ELSE fallen.horizon_resistance)

----------------------------------------------------------------------------
(* DelayEvent and DelayEventList: a list that add appends to and move_top  *)
(* takes the last element from.                                            *)

DelayEvent_new(func, t) == [run_time |-> t, func |-> func]

DelayEventList_new == << >>

add(list, event) == Append(list, event)

add_event(list, func, t) == add(list, DelayEvent_new(func, t))

move_top(list) ==
    IF list = << >>
    THEN [event |-> None, list |-> list]
    ELSE [event |-> Some(list[Len(list)]), list |-> SubSeq(list, 1, Len(list) - 1)]

----------------------------------------------------------------------------
(* An owner of a DelayEventList whose closures only record that they ran:  *)
(* event_list is the owner's field, n_added and run_log are history.       *)

Owner_new == [event_list |-> DelayEventList_new, n_added |-> 0, run_log |-> << >>]

\* (event.func)(self, ctx, game_data) of a closure that records its run
owner_run_func(o, event, t) ==
    [o EXCEPT !.run_log =
        Append(@, [id |-> event.func.id, run_time |-> event.run_time, at |-> t])]

\* a flush loop that runs the popped event and then puts it back
run_effect_keeps_event(o, t) ==
    LET top == move_top(o.event_list) IN
    IF top.event = None THEN o
    ELSE LET event == unwrap(top.event) IN
         IF event.run_time > t
         THEN [o EXCEPT !.event_list = add(top.list, event)]
         ELSE owner_run_func([o EXCEPT !.event_list = add(top.list, event)], event, t)

\* a flush loop that puts a not-yet-due event aside and goes on to the next
RECURSIVE run_effect_skips_not_due(_, _)
run_effect_skips_not_due(o, t) ==
    LET top == move_top(o.event_list) IN
    IF top.event = None THEN o
    ELSE LET event == unwrap(top.event) IN
         IF event.run_time > t
         THEN LET rest == run_effect_skips_not_due([o EXCEPT !.event_list = top.list], t)
              IN [rest EXCEPT !.event_list = add(@, event)]
         ELSE run_effect_skips_not_due(
                  owner_run_func([o EXCEPT !.event_list = top.list], event, t), t)

RECURSIVE run_effect(_, _)
run_effect(o, t) ==
    LET top == move_top(o.event_list) IN
    IF top.event = None THEN o
    ELSE LET event == unwrap(top.event) IN
         IF event.run_time > t
         THEN [o EXCEPT !.event_list = add(top.list, event)]
         ELSE run_effect(owner_run_func([o EXCEPT !.event_list = top.list], event, t), t)

owner_add_event(o, t) ==
    [o EXCEPT !.event_list = add_event(@, [id |-> o.n_added + 1], t),
              !.n_added = @ + 1]

----------------------------------------------------------------------------
(* The tile grid: collision_map[y + 1][x + 1] is the blocking flag of tile *)
(* (x, y).  The right-hand column is walled off from the rest by column 2. *)

TileSize == 30

collision_map ==
    << << FALSE, FALSE, TRUE, FALSE >>,
       << FALSE, FALSE, TRUE, FALSE >> >>

MapHeight == Len(collision_map)

MapWidth == Len(collision_map[1])

Tiles == { Vec(x, y) : x \in 0 .. MapWidth - 1, y \in 0 .. MapHeight - 1 }

\* the same for any grid of blocking flags
TilesOf(grid) == { Vec(x, y) : x \in 0 .. Len(grid[1]) - 1, y \in 0 .. Len(grid) - 1 }

InGridOf(grid, tp) == tp.x \in 0 .. Len(grid[1]) - 1 /\ tp.y \in 0 .. Len(grid) - 1

PassableOf(grid, tp) == InGridOf(grid, tp) /\ ~grid[tp.y + 1][tp.x + 1]

InGrid(tp) == InGridOf(collision_map, tp)

Passable(tp) == PassableOf(collision_map, tp)

tile_position_to_map_position(tp) == Vec(tp.x * TileSize, tp.y * TileSize)

\* a conversion that takes any tile of the row the point is in: the column is
\* not looked at
map_position_to_tile_position_by_row(grid, pos) ==
    IF pos.x < 0 \/ pos.y < 0 THEN None
    ELSE LET tp == Vec(0, pos.y \div TileSize) IN
         IF InGridOf(grid, tp) THEN Some(tp) ELSE None

map_position_to_tile_position_in(grid, pos) ==
    IF pos.x < 0 \/ pos.y < 0 THEN None
    ELSE LET tp == Vec(pos.x \div TileSize, pos.y \div TileSize) IN
         IF InGridOf(grid, tp) THEN Some(tp) ELSE None

map_position_to_tile_position(pos) == map_position_to_tile_position_in(collision_map, pos)

----------------------------------------------------------------------------
(* RouteFinder: breadth-first search over passable tiles, neighbours taken *)
(* in the order up, down, left, right.                                     *)

Neighbours(grid, tp) ==
    SelectSeq(<< Vec(tp.x, tp.y - 1), Vec(tp.x, tp.y + 1),
                 Vec(tp.x - 1, tp.y), Vec(tp.x + 1, tp.y) >>,
              LAMBDA n : PassableOf(grid, n))

SeqRange(seq) == { seq[i] : i \in DOMAIN seq }

\* the tiles from the one after start to tp, following the parent links
RECURSIVE PathTo(_, _, _)
PathTo(tp, start, parent) ==
    IF tp = start THEN << >>
    ELSE Append(PathTo(parent[tp], start, parent), tp)

\* a search that goes on from the tile found last: depth first
RECURSIVE BreadthFirst_newest_first(_, _, _, _, _)
BreadthFirst_newest_first(grid, queue, parent, start, goal) ==
    IF queue = << >> THEN None
    ELSE LET cur == Head(queue) IN
         IF cur = goal THEN Some(PathTo(cur, start, parent))
         ELSE LET fresh == SelectSeq(Neighbours(grid, cur),
                                     LAMBDA n : n \notin DOMAIN parent)
                  grown == [tp \in DOMAIN parent \cup SeqRange(fresh) |->
                               IF tp \in DOMAIN parent THEN parent[tp] ELSE cur]
              IN BreadthFirst_newest_first(grid, fresh \o Tail(queue), grown, start, goal)

RECURSIVE BreadthFirst(_, _, _, _, _)
BreadthFirst(grid, queue, parent, start, goal) ==
    IF queue = << >> THEN None
    ELSE LET cur == Head(queue) IN
         IF cur = goal THEN Some(PathTo(cur, start, parent))
         ELSE LET fresh == SelectSeq(Neighbours(grid, cur),
                                     LAMBDA n : n \notin DOMAIN parent)
                  grown == [tp \in DOMAIN parent \cup SeqRange(fresh) |->
                               IF tp \in DOMAIN parent THEN parent[tp] ELSE cur]
              IN BreadthFirst(grid, Tail(queue) \o fresh, grown, start, goal)

find_shortest_route_in(grid, start, goal) ==
    IF ~PassableOf(grid, start) \/ ~PassableOf(grid, goal) THEN None
    ELSE BreadthFirst(grid, << start >>, [tp \in {start} |-> start], start, goal)

find_shortest_route(start, goal) == find_shortest_route_in(collision_map, start, goal)

----------------------------------------------------------------------------
(* TwoStepPoint and MapObject (the fields the customer's movement uses)    *)

TwoStepPoint_update(tsp, pos) == [previous |-> tsp.current, current |-> pos]

TwoStepPoint_move_diff(tsp, pos) ==
    [previous |-> tsp.current,
     current  |-> Vec(tsp.current.x + pos.x, tsp.current.y + pos.y)]

\* numeric::Rect; a collision crop holds its four fractions in tenths
Rect(x, y, w, h) == [x |-> x, y |-> y, w |-> w, h |-> h]

\* map_to_display of the map parser: the place on the screen of a map position
map_to_display(map_pos, camera) == Vec(map_pos.x - camera.x, map_pos.y - camera.y)

\* the camera ShopScene::new creates; the characters are built against it
SceneCamera == Rect(0, 0, 13660, 7680)

\* obj stands for the SimpleObject by its drawing size, and position is the
\* position of that object on the screen; fixes is history: the corrections
\* the scene computed for this object, oldest first
MapObject_new(obj, mode, speed, map_position, collision_crop) ==
    [last_position  |-> map_to_display(map_position, SceneCamera),
     mode           |-> mode,
     position       |-> map_to_display(map_position, SceneCamera),
     drawing_size   |-> obj,
     speed_info     |-> speed,
     map_position   |-> [previous |-> map_position, current |-> map_position],
     collision_crop |-> collision_crop,
     fixes          |-> << >>]

change_animation_mode(obj, mode) == [obj EXCEPT !.mode = mode]

get_last_position(obj) == obj.last_position

undo_move(obj) ==
    LET last == get_last_position(obj) IN [obj EXCEPT !.position = last]

get_last_map_move_distance(obj) ==
    Vec(obj.map_position.current.x - obj.map_position.previous.x,
        obj.map_position.current.y - obj.map_position.previous.y)

update_display_position(obj, camera) ==
    [obj EXCEPT !.position = map_to_display(obj.map_position.current, camera)]

get_collision_size(obj) ==
    Vec((obj.drawing_size.x * (obj.collision_crop.w - obj.collision_crop.x)) \div 10,
        (obj.drawing_size.y * (obj.collision_crop.h - obj.collision_crop.y)) \div 10)

get_collision_top_offset(obj) ==
    Vec((obj.drawing_size.x * obj.collision_crop.x) \div 10,
        (obj.drawing_size.y * obj.collision_crop.y) \div 10)

\* obj().get_position() is the display position, which the scene refreshes
\* from map_position before every query
get_collision_area(obj) ==
    LET croppped_size        == get_collision_size(obj)
        collision_top_offset == get_collision_top_offset(obj)
        position             == obj.position
    IN Rect(position.x + collision_top_offset.x, position.y + collision_top_offset.y,
            croppped_size.x, croppped_size.y)

\* stores the position as it is, without taking the collision inset off
set_map_position_without_offset(obj, position) ==
    [obj EXCEPT !.map_position = TwoStepPoint_update(@, position)]

set_map_position_with_collision_top_offset(obj, position) ==
    LET offset == get_collision_top_offset(obj) IN
    [obj EXCEPT !.map_position =
        TwoStepPoint_update(@, Vec(position.x - offset.x, position.y - offset.y))]

get_map_position_with_collision_top_offset(obj) ==
    LET offset == get_collision_top_offset(obj) IN
    Vec(obj.map_position.current.x + offset.x, obj.map_position.current.y + offset.y)

\* moves current and leaves previous as it was
move_map_keeps_previous(obj, offset) ==
    [obj EXCEPT !.map_position.current = Vec(@.x + offset.x, @.y + offset.y)]

move_map(obj, offset) ==
    [obj EXCEPT !.map_position = TwoStepPoint_move_diff(@, offset)]

----------------------------------------------------------------------------
(* Collision of a MapObject with another character and with the tiles.     *)
(* The corrections add 0.1, 0.5, 1.0 or 2.0 map units: 1, 5, 10, 20 here.  *)
(* A function that returns f32 in the source returns Some(value) here, and *)
(* None when the source panics on an unwrap of None.                       *)

\* Rect::overlaps of the graphics library: boxes whose edges touch overlap
overlaps(a, b) ==
    /\ a.x <= b.x + b.w
    /\ a.x + a.w >= b.x
    /\ a.y <= b.y + b.h
    /\ a.y + a.h >= b.y

new_collision(obj1, obj2, center_diff) ==
    [collision        |-> TRUE,
     object1_position |-> Some(obj1),
     object2_position |-> Some(obj2),
     center_diff      |-> Some(center_diff)]

new_not_collision ==
    [collision        |-> FALSE,
     object1_position |-> None,
     object2_position |-> None,
     center_diff      |-> None]

check_collision_with_character(self, chara) ==
    LET a1 == get_collision_area(self)
        a2 == get_collision_area(chara)
    IN IF overlaps(a1, a2)
       THEN new_collision(a1, a2, Vec(a2.x - a1.x, a2.y - a1.y))
       ELSE new_not_collision

fix_collision_above(self, info) ==
    (unwrap(info.object1_position).y + unwrap(info.object1_position).h + 1)
        - unwrap(info.object2_position).y

fix_collision_bottom(self, info) ==
    LET area == get_collision_size(self) IN
    unwrap(info.object1_position).y - (unwrap(info.object2_position).y + area.y) - 10

fix_collision_right(self, info) ==
    LET area == get_collision_size(self) IN
    (unwrap(info.object1_position).x - 20) - (unwrap(info.object2_position).x + area.x)

\* keeps the 2.0 of the right-edge correction
fix_collision_left_wide(self, info) ==
    (unwrap(info.object1_position).x + unwrap(info.object1_position).w + 20)
        - unwrap(info.object2_position).x

fix_collision_left(self, info) ==
    (unwrap(info.object1_position).x + unwrap(info.object1_position).w + 5)
        - unwrap(info.object2_position).x

\* takes a missing center_diff for (0, 0) instead of panicking on it
fix_collision_vertical_lenient(self, info) ==
    IF info.center_diff = None THEN Some(0)
    ELSE IF unwrap(info.center_diff).y < 0 THEN Some(fix_collision_bottom(self, info))
    ELSE IF unwrap(info.center_diff).y > 0 THEN Some(fix_collision_above(self, info))
    ELSE Some(0)

\* picks the edge by which box starts lower
fix_collision_vertical_swapped(self, info) ==
    IF info.center_diff = None THEN None
    ELSE IF unwrap(info.center_diff).y < 0 THEN Some(fix_collision_above(self, info))
    ELSE IF unwrap(info.center_diff).y > 0 THEN Some(fix_collision_bottom(self, info))
    ELSE Some(0)

fix_collision_vertical(self, info) ==
    IF info.center_diff = None THEN None
    ELSE IF unwrap(info.center_diff).y < 0 THEN Some(fix_collision_bottom(self, info))
    ELSE IF unwrap(info.center_diff).y > 0 THEN Some(fix_collision_above(self, info))
    ELSE Some(0)

fix_collision_horizon(self, info) ==
    IF info.center_diff = None THEN None
    ELSE IF unwrap(info.center_diff).x < 0 THEN Some(fix_collision_right(self, info))
    ELSE IF unwrap(info.center_diff).x > 0 THEN Some(fix_collision_left(self, info))
    ELSE Some(0)

----------------------------------------------------------------------------
(* The tile map's collision query and the scene's use of the corrections   *)

TileRect(tp) == Rect(tp.x * TileSize, tp.y * TileSize, TileSize, TileSize)

\* the blocking tiles, row by row
BlockingTiles ==
    SelectSeq([i \in 1 .. MapWidth * MapHeight |->
                   Vec((i - 1) % MapWidth, (i - 1) \div MapWidth)],
              LAMBDA tp : collision_map[tp.y + 1][tp.x + 1])

\* StageObjectMap::check_character_collision: the first blocking tile the
\* collision box of the character overlaps is box 1, the character's box 2
check_character_collision(character) ==
    LET area == get_collision_area(character)
        hits == SelectSeq(BlockingTiles, LAMBDA tp : overlaps(TileRect(tp), area))
    IN IF hits = << >> THEN new_not_collision
       ELSE LET tile == TileRect(Head(hits)) IN
            new_collision(tile, area,
                          Vec((2 * area.x + area.w - 2 * tile.x - tile.w) \div 2,
                              (2 * area.y + area.h - 2 * tile.y - tile.h) \div 2))

\* history: the correction offset, where the object stood when it was
\* computed, and the flag of the collision result it was computed from
LogFix(obj, offset, info) ==
    [obj EXCEPT !.fixes = Append(@, [offset |-> offset, at |-> obj.map_position.current,
                                     collided |-> info.collision])]

\* moves the player by the correction a second time
check_character_collision_x_twice(p, e) ==
    LET shown == update_display_position(p, SceneCamera)
        collision_info == check_collision_with_character(shown, e)
    IN IF collision_info.collision
       THEN LET diff == unwrap(fix_collision_horizon(shown, collision_info)) IN
            update_display_position(
                move_map(move_map(LogFix(shown, Vec(-diff, 0), collision_info), Vec(-diff, 0)),
                         Vec(-diff, 0)), SceneCamera)
       ELSE shown

\* computes the correction whatever the flag says
check_collision_horizon_unchecked(character) ==
    LET collision_info == check_character_collision(character)
        fix == fix_collision_horizon(character, collision_info)
        diff == IF fix = None THEN 0 ELSE unwrap(fix)
    IN move_map(LogFix(character, Vec(diff, 0), collision_info), Vec(diff, 0))

check_collision_horizon(character) ==
    LET collision_info == check_character_collision(character) IN
    IF collision_info.collision
    THEN LET diff == unwrap(fix_collision_horizon(character, collision_info)) IN
         move_map(LogFix(character, Vec(diff, 0), collision_info), Vec(diff, 0))
    ELSE character

check_collision_vertical(character) ==
    LET collision_info == check_character_collision(character) IN
    IF collision_info.collision
    THEN LET diff == unwrap(fix_collision_vertical(character, collision_info)) IN
         move_map(LogFix(character, Vec(0, diff), collision_info), Vec(0, diff))
    ELSE character

\* the scene's character_group holds the one other character e
check_character_collision_x(p, e) ==
    LET shown == update_display_position(p, SceneCamera)
        collision_info == check_collision_with_character(shown, e)
    IN IF collision_info.collision
       THEN LET diff == unwrap(fix_collision_horizon(shown, collision_info)) IN
            update_display_position(
                move_map(LogFix(shown, Vec(-diff, 0), collision_info), Vec(-diff, 0)), SceneCamera)
       ELSE shown

check_character_collision_y(p, e) ==
    LET shown == update_display_position(p, SceneCamera)
        collision_info == check_collision_with_character(shown, e)
    IN IF collision_info.collision
       THEN LET diff == unwrap(fix_collision_vertical(shown, collision_info)) IN
            update_display_position(
                move_map(LogFix(shown, Vec(0, -diff), collision_info), Vec(0, -diff)), SceneCamera)
       ELSE shown

----------------------------------------------------------------------------
(* CustomerDestPoint and CustomerMoveQueue *)

\* CustomerDestPoint.candidates: a shelf, a walled-off shelf, the counter
move_data == << Vec(1, 0), Vec(3, 0), Vec(0, 1) >>

\* the counter tile handed to try_update_move_effect
CounterTile == Vec(0, 1)

\* the tile the scene sends a served customer to
ExitTile == Vec(1, 1)

\* random_select: any candidate
random_select_values == SeqRange(move_data)

CustomerMoveQueue_new == << >>

\* puts the new points in front of the queued ones
enqueue_front(queue, points) == points \o queue

enqueue(queue, points) == queue \o points

\* takes the newest point instead of the oldest
dequeue_back(queue) ==
    IF queue = << >> THEN [value |-> None, queue |-> queue]
    ELSE [value |-> Some(queue[Len(queue)]),
          queue |-> SubSeq(queue, 1, Len(queue) - 1)]

dequeue(queue) ==
    IF queue = << >> THEN [value |-> None, queue |-> queue]
    ELSE [value |-> Some(Head(queue)), queue |-> Tail(queue)]

empty(queue) == Len(queue) = 0

clear(queue) == << >>

----------------------------------------------------------------------------
(* CustomerCharacter *)

Ready == "Ready"

Moving == "Moving"

WaitOnClerk == "WaitOnClerk"

WaitOnBookShelf == "WaitOnBookShelf"

\* not a CustomerCharacterStatus: the thread panicked on an unwrap of None
Panicked == "Panicked"

\* the walking speed 1.4 of override_move_effect
WalkSpeed == 14

\* the arrival radius 1.5 of is_goal_now
GoalRadius == 15

\* the delay t + 100 of the route event of update_move_effect
RouteDelay == 100

\* the SpeedBorder the character factory gives an actor
ActorSpeedBorder ==
    [positive_x |-> 40, negative_x |-> -40, positive_y |-> 40, negative_y |-> -40]

\* request is history: the last call of update_current_destination made by
\* the operation that produced this value (None when it made none), with the
\* length of the queue when the operation began (had) and when it called (qlen)
CustomerCharacter_new(character) ==
    [event_list       |-> DelayEventList_new,
     character        |-> character,
     move_queue       |-> CustomerMoveQueue_new,
     customer_status  |-> Ready,
     shopping_is_done |-> FALSE,
     current_goal     |-> Vec(0, 0),
     request          |-> None]

RouteRequest(began, asked, dest, route) ==
    Some([had |-> Len(began.move_queue), qlen |-> Len(asked.move_queue),
          dest |-> dest, route |-> route])

\* searches whatever the queue holds
update_current_destination_always(c, dest) ==
    LET maybe_start == map_position_to_tile_position(
                           get_map_position_with_collision_top_offset(c.character))
    IN IF maybe_start # None
       THEN LET maybe_route == find_shortest_route(unwrap(maybe_start), dest) IN
            IF maybe_route # None
            THEN Some([i \in DOMAIN unwrap(maybe_route) |->
                          tile_position_to_map_position(unwrap(maybe_route)[i])])
            ELSE None
       ELSE None

update_current_destination(c, dest) ==
    IF empty(c.move_queue)
    THEN LET maybe_start == map_position_to_tile_position(
                                get_map_position_with_collision_top_offset(c.character))
         IN IF maybe_start # None
            THEN LET maybe_route == find_shortest_route(unwrap(maybe_start), dest) IN
                 IF maybe_route # None
                 THEN Some([i \in DOMAIN unwrap(maybe_route) |->
                               tile_position_to_map_position(unwrap(maybe_route)[i])])
                 ELSE None
            ELSE None
    ELSE None

\* |1.4 * a / sqrt(d2)|, rounded to the nearest unit, with the sign of a:
\* one component of (cos(rad) * 1.4, sin(rad) * 1.4) for the angle of the offset
SpeedComponent(a, d2) ==
    LET mag == CHOOSE v \in 0 .. WalkSpeed :
                   /\ \/ v = 0
                      \/ (2 * v - 1) * (2 * v - 1) * d2 <= 4 * WalkSpeed * WalkSpeed * a * a
                   /\ (2 * v + 1) * (2 * v + 1) * d2 > 4 * WalkSpeed * WalkSpeed * a * a
    IN IF a < 0 THEN -mag ELSE mag

\* f32::atan of y / x in thousandths of a degree, where y / x is the f32
\* quotient (an infinity when x is 0 and y is not): for a quotient q between
\* 0 and 1 the value 45 q + 15.64 q (1 - q) degrees, which is 0 at 0 and 45
\* at 1 and within 0.25 degrees of the arc tangent between them, for a larger
\* q 90 degrees less the value at 1 / q, and the opposite for a negative q
atan(y, x) ==
    LET a == Abs(y)
        b == Abs(x)
        f(lo, hi) == (45000 * lo * hi + 15640 * lo * (hi - lo)) \div (hi * hi)
        mag == IF b = 0 THEN 90000
               ELSE IF a <= b THEN f(a, b)
               ELSE 90000 - f(b, a)
    IN IF (y < 0 /\ x >= 0) \/ (y > 0 /\ x < 0) THEN -mag ELSE mag

\* the angle without the turn added below the x axis
rad_without_full_turn(offset) ==
    IF offset.x >= 0
    THEN atan(offset.y, offset.x)
    ELSE atan(offset.y, offset.x) + 180000

\* the local rad of override_move_effect, in thousandths of a degree
rad_of(offset) ==
    IF offset.x >= 0
    THEN IF offset.y >= 0
         THEN atan(offset.y, offset.x)
         ELSE atan(offset.y, offset.x) + 360000
    ELSE atan(offset.y, offset.x) + 180000

update_animation_mode_with_rad(c, rad) ==
    LET up    == IF rad >= 45000 /\ rad < 135000
                 THEN [c EXCEPT !.character = change_animation_mode(@, 0)] ELSE c
        left  == IF rad >= 135000 /\ rad < 225000
                 THEN [up EXCEPT !.character = change_animation_mode(@, 3)] ELSE up
        down  == IF rad >= 225000 /\ rad < 315000
                 THEN [left EXCEPT !.character = change_animation_mode(@, 1)] ELSE left
    IN IF (rad >= 315000 /\ rad <= 360000) \/ (rad >= 0 /\ rad < 45000)
       THEN [down EXCEPT !.character = change_animation_mode(@, 2)] ELSE down

override_move_effect(c, goal_point) ==
    LET current == get_map_position_with_collision_top_offset(c.character)
        offset  == Vec(goal_point.x - current.x, goal_point.y - current.y)
        d2      == offset.x * offset.x + offset.y * offset.y
    IN IF offset.x = 0 /\ offset.y = 0
       THEN [c EXCEPT !.character.speed_info = set_speed(@, Vec(0, 0))]
       ELSE LET rad   == rad_of(offset)
                speed == Vec(SpeedComponent(offset.x, d2), SpeedComponent(offset.y, d2))
            IN [update_animation_mode_with_rad(c, rad)
                   EXCEPT !.character.speed_info = set_speed(@, speed)]

\* flips back to Ready whether or not a route was found
route_event_func_always_ready(c, func) ==
    IF func.maybe_next_route # None
    THEN [c EXCEPT !.move_queue = enqueue(@, unwrap(func.maybe_next_route)),
                   !.customer_status = Ready]
    ELSE [c EXCEPT !.customer_status = Ready]

\* the closure update_move_effect schedules
route_event_func(c, func) ==
    IF func.maybe_next_route # None
    THEN [c EXCEPT !.move_queue = enqueue(@, unwrap(func.maybe_next_route)),
                   !.customer_status = Ready]
    ELSE c

\* keeps the state Ready after a request
update_move_effect_stays_ready(c, t, dest) ==
    IF empty(c.move_queue)
    THEN LET maybe_next_route == update_current_destination(c, dest) IN
         [c EXCEPT !.event_list = add_event(@, [maybe_next_route |-> maybe_next_route],
                                            t + RouteDelay),
                   !.request = RouteRequest(c, c, dest, maybe_next_route)]
    ELSE LET popped == dequeue(c.move_queue) IN
         IF popped.value # None
         THEN LET next_position == unwrap(popped.value) IN
              [override_move_effect([c EXCEPT !.move_queue = popped.queue], next_position)
                  EXCEPT !.current_goal = next_position,
                         !.customer_status = Moving]
         ELSE [c EXCEPT !.move_queue = popped.queue]

\* takes the head waypoint as the goal but leaves it in the queue
update_move_effect_keeps_head(c, t, dest) ==
    IF empty(c.move_queue)
    THEN LET maybe_next_route == update_current_destination(c, dest) IN
         [c EXCEPT !.event_list = add_event(@, [maybe_next_route |-> maybe_next_route],
                                            t + RouteDelay),
                   !.customer_status = WaitOnBookShelf,
                   !.request = RouteRequest(c, c, dest, maybe_next_route)]
    ELSE LET next_position == Head(c.move_queue) IN
         [override_move_effect(c, next_position)
             EXCEPT !.current_goal = next_position,
                    !.customer_status = Moving]

update_move_effect(c, t, dest) ==
    IF empty(c.move_queue)
    THEN LET maybe_next_route == update_current_destination(c, dest) IN
         [c EXCEPT !.event_list = add_event(@, [maybe_next_route |-> maybe_next_route],
                                            t + RouteDelay),
                   !.customer_status = WaitOnBookShelf,
                   !.request = RouteRequest(c, c, dest, maybe_next_route)]
    ELSE LET popped == dequeue(c.move_queue) IN
         IF popped.value # None
         THEN LET next_position == unwrap(popped.value) IN
              [override_move_effect([c EXCEPT !.move_queue = popped.queue], next_position)
                  EXCEPT !.current_goal = next_position,
                         !.customer_status = Moving]
         ELSE [c EXCEPT !.move_queue = popped.queue]

\* does not clear the queue before asking for the route
set_destination_forced_no_clear(c, dest) ==
    LET maybe_next_route == update_current_destination(c, dest)
        asked == [c EXCEPT !.request = RouteRequest(c, c, dest, maybe_next_route)]
    IN IF maybe_next_route # None
       THEN [asked EXCEPT !.move_queue = enqueue(@, unwrap(maybe_next_route)),
                          !.customer_status = Ready]
       ELSE asked

\* enqueues the route and leaves the status as it is
set_destination_forced_keeps_status(c, dest) ==
    LET cleared == [c EXCEPT !.move_queue = clear(@)]
        maybe_next_route == update_current_destination(cleared, dest)
        asked == [cleared EXCEPT !.request = RouteRequest(c, cleared, dest, maybe_next_route)]
    IN IF maybe_next_route # None
       THEN [asked EXCEPT !.move_queue = enqueue(@, unwrap(maybe_next_route))]
       ELSE asked

set_destination_forced(c, dest) ==
    LET cleared == [c EXCEPT !.move_queue = clear(@)]
        maybe_next_route == update_current_destination(cleared, dest)
        asked == [cleared EXCEPT !.request = RouteRequest(c, cleared, dest, maybe_next_route)]
    IN IF maybe_next_route # None
       THEN [asked EXCEPT !.move_queue = enqueue(@, unwrap(maybe_next_route)),
                          !.customer_status = Ready]
       ELSE asked

reset_speed(c) == [c EXCEPT !.character.speed_info = set_speed(@, Vec(0, 0))]

\* the arrival test with <= instead of <, on a radius one unit too wide
is_goal_now_wide(c) ==
    LET current == get_map_position_with_collision_top_offset(c.character)
        dx == current.x - c.current_goal.x
        dy == current.y - c.current_goal.y
    IN dx * dx + dy * dy <= (GoalRadius + 1) * (GoalRadius + 1)

\* an arrival test with a radius of 0.5, less than half a step
is_goal_now_narrow(c) ==
    LET current == get_map_position_with_collision_top_offset(c.character)
        dx == current.x - c.current_goal.x
        dy == current.y - c.current_goal.y
    IN dx * dx + dy * dy < 5 * 5

is_goal_now(c) ==
    LET current == get_map_position_with_collision_top_offset(c.character)
        dx == current.x - c.current_goal.x
        dy == current.y - c.current_goal.y
    IN dx * dx + dy * dy < GoalRadius * GoalRadius

\* a flush that puts a not-yet-due event aside and goes on to the next
RECURSIVE flush_delay_event_skips_not_due(_, _)
flush_delay_event_skips_not_due(c, t) ==
    LET top == move_top(c.event_list) IN
    IF top.event = None THEN c
    ELSE LET event == unwrap(top.event) IN
         IF event.run_time > t
         THEN LET rest == flush_delay_event_skips_not_due(
                              [c EXCEPT !.event_list = top.list], t)
              IN [rest EXCEPT !.event_list = add(@, event)]
         ELSE flush_delay_event_skips_not_due(
                  route_event_func([c EXCEPT !.event_list = top.list], event.func), t)

RECURSIVE flush_delay_event(_, _)
flush_delay_event(c, t) ==
    LET top == move_top(c.event_list) IN
    IF top.event = None THEN c
    ELSE LET event == unwrap(top.event) IN
         IF event.run_time > t
         THEN [c EXCEPT !.event_list = add(top.list, event)]
         ELSE flush_delay_event(
                  route_event_func([c EXCEPT !.event_list = top.list], event.func), t)

\* the Moving arm of try_update_move_effect
arrive_if_goal_now(c, counter) ==
    IF is_goal_now(c)
    THEN LET goal == c.current_goal
             snapped == reset_speed(
                 [c EXCEPT !.character =
                               set_map_position_with_collision_top_offset(@, goal),
                           !.customer_status = Ready])
             goal_tile == map_position_to_tile_position(goal)
         IN IF ~snapped.shopping_is_done
            THEN IF goal_tile = None
                 THEN [snapped EXCEPT !.customer_status = Panicked]
                 ELSE IF unwrap(goal_tile) = counter
                      THEN [snapped EXCEPT !.customer_status = WaitOnClerk,
                                           !.shopping_is_done = TRUE]
                      ELSE snapped
            ELSE snapped
    ELSE c

try_update_move_effect(c, counter, t, dest) ==
    LET flushed == flush_delay_event(c, t) IN
    IF flushed.customer_status = Ready THEN update_move_effect(flushed, t, dest)
    ELSE IF flushed.customer_status = Moving THEN arrive_if_goal_now(flushed, counter)
    ELSE flushed

move_map_current_speed_x(c) ==
    [c EXCEPT !.character = move_map(@, Vec(get_speed(c.character.speed_info).x, 0))]

move_map_current_speed_y(c) ==
    [c EXCEPT !.character = move_map(@, Vec(0, get_speed(c.character.speed_info).y))]

customer_move_and_collision_check(c) ==
    LET moved_y == move_map_current_speed_y(c)
        fixed_y == [moved_y EXCEPT !.character = update_display_position(
                        check_collision_vertical(
                            update_display_position(@, SceneCamera)), SceneCamera)]
        moved_x == move_map_current_speed_x(fixed_y)
    IN [moved_x EXCEPT !.character = update_display_position(
            check_collision_horizon(update_display_position(@, SceneCamera)), SceneCamera)]

----------------------------------------------------------------------------
(* PlayableCharacter and the scene's frame step for it.  Every collision   *)
(* query of the scene follows an update_display_position of the boxes it   *)
(* compares, all against one camera, so the boxes are taken at their map   *)
(* positions.                                                              *)

\* the border ShopScene passes to move_map_current_speed_x and _y
MapBorder == 15000

playable_move_map_current_speed_x(p, border) ==
    LET x_speed  == get_speed(p.speed_info).x
        overflow == (p.map_position.current.x + x_speed) - border
    IN IF overflow > 0 THEN move_map(p, Vec(x_speed - overflow, 0))
       ELSE move_map(p, Vec(x_speed, 0))

playable_move_map_current_speed_y(p, border) ==
    LET y_speed  == get_speed(p.speed_info).y
        overflow == (p.map_position.current.y + y_speed) - border
    IN IF overflow > 0 THEN move_map(p, Vec(0, y_speed - overflow))
       ELSE move_map(p, Vec(0, y_speed))

\* ShopScene::playable_check_collision_horizon and _vertical
playable_check_collision_horizon(p) ==
    update_display_position(check_collision_horizon(p), SceneCamera)

playable_check_collision_vertical(p) ==
    update_display_position(check_collision_vertical(p), SceneCamera)

move_playable_character_x(p, e) ==
    check_character_collision_x(
        playable_check_collision_horizon(
            update_display_position(
                playable_move_map_current_speed_x(p, MapBorder), SceneCamera)), e)

move_playable_character_y(p, e) ==
    check_character_collision_y(
        playable_check_collision_vertical(
            update_display_position(
                playable_move_map_current_speed_y(p, MapBorder), SceneCamera)), e)

move_playable_character(p, e) ==
    move_playable_character_y(move_playable_character_x(p, e), e)

----------------------------------------------------------------------------
(* Bounds of the model *)

MaxClock == 110

MaxLongClock == 1100

MaxForced == 1

MaxEarly == 6

MaxIdle == 1

MaxEvents == 3

MaxTrigger == 3

MaxSchedClock == 4

MaxSpeedArg == 4

MaxMoves == 3

MaxFrames == 2

MaxCalls == 3

MaxResistClock == 5

MaxOffset == 4

MaxSide == 3

MaxDreamClock == 9

MaxShopFrames == 45

MaxStay == 2

MaxEnter == 4

MaxSpawnDelay == 0

MaxDayFrames == 60

MaxDayEnter == 3

MaxNotifications == 3

MaxNotifyFrames == 420

MaxLines == 3

MaxStep == 2

MaxDialogueStart == 2

MaxAnimationFrames == 14

MaxLim == 3

MaxTextures == 2

MaxFrameSpeed == 2

MaxDeskObjects == 4

MaxSaveFrames == 80

MaxClicks == 2

MaxCustomers == 2

----------------------------------------------------------------------------
(* Initial values shared by the specifications *)

\* a border narrower than the arguments the speed operations are given
NarrowSpeedBorder ==
    [positive_x |-> 2, negative_x |-> -2, positive_y |-> 3, negative_y |-> -1]

\* the sprite of a customer and its collision crop (0.1, 0.1)..(0.5, 0.6): a
\* collision box of 12 x 20 set in by (3, 4)
CustomerDrawingSize == Vec(30, 40)

CustomerCollisionCrop == Rect(1, 1, 5, 6)

\* MapObject.map_position at construction: the collision box on the corner
\* of tile (0, 0), or inside tile (1, 0)
StartPositions == { Vec(-3, -4), Vec(35, 9) }

\* a border wider than the arguments the speed operations are given
WideSpeedBorder ==
    [positive_x |-> 8, negative_x |-> -8, positive_y |-> 8, negative_y |-> -8]

\* object.rs infos: a speed within MaxSpeedArg, a resistance step of 0.1 or 0.2
ResistStarts ==
    { TextureSpeedInfo_new_with_resistance(g, r, Vec(x, y), b) :
          g \in { 0, 1 }, r \in { 1, 2 },
          x \in (-MaxSpeedArg) .. MaxSpeedArg, y \in { 0, 2 },
          b \in { NarrowSpeedBorder, WideSpeedBorder } }

ResistInit ==
    /\ resist_info \in ResistStarts
    /\ resist_clock = 0

\* where the other specifications leave it: at rest
AtRestInit ==
    /\ ResistInit
    /\ resist_info = TextureSpeedInfo_new_with_resistance(0, 1, Vec(0, 0), NarrowSpeedBorder)

SpeedInit ==
    /\ speed_info = TextureSpeedInfo_new(Vec(0, 0), NarrowSpeedBorder)
    /\ AtRestInit

SchedInit == owner = Owner_new /\ sched_clock = 0

----------------------------------------------------------------------------
(* ShopScene: the shop clock, the scene's own delayed events, the group of *)
(* walking customers and the queue of customers waiting at the counter.    *)
(* The player is reduced to the SwitchScene event the map returns under it *)
(* (player_on), the frames it has stood there (stayed) and whether it has  *)
(* stepped on one before (visited).  n_spawned, queued_log, request_log,   *)
(* handed_back, n_close_effects, n_day_end_events and panicked are history.*)

Keep == "Keep"

StackingTransition == "StackingTransition"

SwapTransition == "SwapTransition"

SuzunaShop == "SuzunaShop"

MainDesk == "MainDesk"

Copying == "Copying"

DayResult == "DayResult"

ShopClock_new(hour, minute) == [hour |-> hour, minute |-> minute]

\* u8 arithmetic
add_hour(shop_clock, hour) ==
    [shop_clock EXCEPT !.hour = ((@ + hour) % 256) % 24]

add_minute(shop_clock, minute) ==
    LET summed  == [shop_clock EXCEPT !.minute = (@ + minute) % 256]
        carried == add_hour(summed, summed.minute \div 60)
    IN [carried EXCEPT !.minute = @ % 60]

is_past(shop_clock, hour, minute) ==
    IF shop_clock.hour > hour THEN TRUE
    ELSE IF shop_clock.hour = hour THEN shop_clock.minute > minute
    ELSE FALSE

equals(shop_clock, hour, minute) ==
    shop_clock.hour = hour /\ shop_clock.minute = minute

\* a customer with the name the history knows it by
Named(c, name) ==
    [f \in DOMAIN c \cup {"name"} |-> IF f = "name" THEN name ELSE c[f]]

CharacterGroup_new == << >>

CharacterGroup_add(group, character) == Append(group, character)

\* Vec::swap_remove: the last element takes the place of the removed one
swap_remove(group, index) ==
    LET last == Len(group) IN
    [i \in 1 .. (last - 1) |-> IF i = index THEN group[last] ELSE group[i]]

\* the loop of drain_remove_if from index down to the first element
RECURSIVE drain_from(_, _, _)
drain_from(group, removed, index) ==
    IF index = 0 THEN [group |-> group, removed |-> removed]
    ELSE IF group[index].customer_status = WaitOnClerk
         THEN drain_from(swap_remove(group, index), Append(removed, group[index]), index - 1)
         ELSE drain_from(group, removed, index - 1)

\* drain_remove_if(|customer| customer.is_wait_on_clerk())
drain_remove_if_wait_on_clerk(group) == drain_from(group, << >>, Len(group))

\* a stable sort by the y of the map position
RECURSIVE sort_by_y_position(_)
sort_by_y_position(group) ==
    IF group = << >> THEN << >>
    ELSE LET sorted == sort_by_y_position(SubSeq(group, 1, Len(group) - 1))
             last   == group[Len(group)]
             y(c)   == c.character.map_position.current.y
             before == { i \in DOMAIN sorted : y(sorted[i]) <= y(last) }
             k      == IF before = {} THEN 0
                       ELSE CHOOSE i \in before : \A j \in before : j <= i
         IN SubSeq(sorted, 1, k) \o << last >> \o SubSeq(sorted, k + 1, Len(sorted))

\* CustomerCharacter::new on the character the factory makes for a customer
SampleCustomer ==
    CustomerCharacter_new(
        MapObject_new(CustomerDrawingSize, 0,
                      TextureSpeedInfo_new(Vec(0, 0), ActorSpeedBorder),
                      Vec(-3, -4), CustomerCollisionCrop))

\* the scene is built with one customer in the group
ShopScene_new ==
    [clock                  |-> 0,
     shop_clock             |-> ShopClock_new(8, 0),
     event_list             |-> DelayEventList_new,
     transition_status      |-> Keep,
     transition_scene       |-> SuzunaShop,
     character_group        |-> CharacterGroup_add(CharacterGroup_new,
                                                   Named(SampleCustomer, 1)),
     customer_queue         |-> << >>,
     customer_request_queue |-> << >>,
     scene_transition_effect |-> None,
     player_on              |-> None,
     stayed                 |-> 0,
     visited                |-> FALSE,
     n_spawned              |-> 1,
     queued_log             |-> << >>,
     request_log            |-> << >>,
     handed_back            |-> {},
     n_close_effects        |-> 0,
     n_day_end_events       |-> 0,
     panicked               |-> FALSE]

\* the closing effect of 60 ticks, begun at t
scene_transition_close_effect(scene, t) ==
    [scene EXCEPT !.scene_transition_effect = Some([type |-> "Close", begin |-> t]),
                  !.n_close_effects = @ + 1]

\* the opening effect of 30 ticks when the scene is returned to
switched_and_restart(scene) ==
    [scene EXCEPT !.transition_scene = SuzunaShop,
                  !.scene_transition_effect =
                      Some([type |-> "Open", begin |-> scene.clock])]

\* the closure check_event_panel_onmap schedules for a SwitchScene event;
\* pop_front().unwrap() on an empty queue panics
switch_scene_func(scene, switch_scene_id) ==
    LET switched == [scene EXCEPT !.transition_status = StackingTransition,
                                  !.transition_scene = switch_scene_id]
        advanced == IF switched.transition_scene = MainDesk
                    THEN [switched EXCEPT !.shop_clock = add_minute(@, 10)]
                    ELSE switched
    IN IF advanced.customer_queue = << >>
       THEN [advanced EXCEPT !.panicked = TRUE]
       ELSE LET popped == Head(advanced.customer_queue)
                leaving == set_destination_forced(popped, ExitTile)
            IN [advanced EXCEPT !.customer_queue = Tail(@),
                                !.character_group = CharacterGroup_add(@, leaving),
                                !.handed_back = @ \cup { popped.name }]

\* the closure check_shop_clock_regular schedules
day_end_func(scene) ==
    [scene EXCEPT !.transition_status = SwapTransition,
                  !.transition_scene = DayResult]

shop_event_func(scene, func) ==
    IF func.kind = "switch_scene" THEN switch_scene_func(scene, func.switch_scene_id)
    ELSE day_end_func(scene)

\* flush_delay_event!(self, self.event_list, ctx, t)
RECURSIVE ShopScene_flush_delay_event(_, _)
ShopScene_flush_delay_event(scene, t) ==
    LET top == move_top(scene.event_list) IN
    IF scene.panicked \/ top.event = None THEN scene
    ELSE LET event == unwrap(top.event) IN
         IF event.run_time > t
         THEN [scene EXCEPT !.event_list = add(top.list, event)]
         ELSE ShopScene_flush_delay_event(
                  shop_event_func([scene EXCEPT !.event_list = top.list], event.func), t)

\* check_event_panel_onmap for the event the map returns under the player:
\* None, or the scene of a SwitchScene event
check_event_panel_onmap(scene, target_event) ==
    IF target_event = None THEN scene
    ELSE IF scene.customer_request_queue # << >> /\ scene.customer_queue # << >>
         THEN scene_transition_close_effect(
                  [scene EXCEPT !.event_list =
                       add_event(@, [kind |-> "switch_scene",
                                     switch_scene_id |-> unwrap(target_event)],
                                 scene.clock + 31)],
                  scene.clock)
         ELSE scene

\* random_add_customer when the random number is a multiple of 150
random_add_customer(scene) ==
    [scene EXCEPT !.character_group = CharacterGroup_add(@,
                      Named(SampleCustomer, scene.n_spawned + 1)),
                  !.n_spawned = @ + 1]

update_shop_clock_regular(scene) ==
    IF scene.clock % 40 = 0
    THEN [scene EXCEPT !.shop_clock = add_minute(@, 5)]
    ELSE scene

check_shop_clock_regular(scene) ==
    IF equals(scene.shop_clock, 18, 0)
    THEN scene_transition_close_effect(
             [scene EXCEPT !.event_list = add_event(@, [kind |-> "day_end"],
                                                    scene.clock + 120),
                           !.n_day_end_events = @ + 1],
             scene.clock)
    ELSE scene

\* the customers after their moves: the customers that are WaitOnClerk leave
\* the group for the queue, and check_rise_hand gives a request for each
update_customers_drained(checked, drained, dests) ==
    LET t       == checked.clock
        rising  == drained.removed
        asking  == [i \in DOMAIN rising |-> rising[i].name]
        group   == [i \in DOMAIN drained.group |->
                       try_update_move_effect(drained.group[i], CounterTile, t, dests[i])]
        queue   == checked.customer_queue \o rising
        queued  == [i \in DOMAIN queue |->
                       try_update_move_effect(
                           customer_move_and_collision_check(queue[i]),
                           CounterTile, t, dests[i])]
    IN [checked EXCEPT !.character_group = sort_by_y_position(group),
                       !.customer_queue = queued,
                       !.customer_request_queue = @ \o asking,
                       !.request_log = @ \o asking,
                       !.queued_log = @ \o asking]

\* the moves of the customers of the group
update_customers_checked(checked, dests) ==
    update_customers_drained(
        checked,
        drain_remove_if_wait_on_clerk(
            [i \in DOMAIN checked.character_group |->
                customer_move_and_collision_check(checked.character_group[i])]),
        dests)

\* the part of pre_process that runs while no menu is open: spawn is the
\* outcome of the random draw, target_event what the map returns under the
\* player, dests the random destinations the customers draw
ShopScene_update_customers(scene, spawn, target_event, dests) ==
    update_customers_checked(
        check_event_panel_onmap(IF spawn THEN random_add_customer(scene) ELSE scene,
                                target_event),
        dests)

\* the shop clock and the flush at the end of pre_process
pre_process_clock(updated) ==
    ShopScene_flush_delay_event(
        check_shop_clock_regular(update_shop_clock_regular(updated)),
        updated.clock)

\* pre_process after its first flush
pre_process_flushed(flushed, menu_open, spawn, target_event, dests) ==
    IF flushed.panicked THEN flushed
    ELSE pre_process_clock(
             IF menu_open THEN flushed
             ELSE ShopScene_update_customers(flushed, spawn, target_event, dests))

ShopScene_pre_process(scene, menu_open, spawn, target_event, dests) ==
    pre_process_flushed(ShopScene_flush_delay_event(scene, scene.clock),
                        menu_open, spawn, target_event, dests)

ShopScene_post_process(scene) ==
    IF scene.panicked THEN scene ELSE [scene EXCEPT !.clock = @ + 1]

\* what the owner of the scene does with a request taken from the queue
pop_customer_request(scene) ==
    [scene EXCEPT !.customer_request_queue = IF @ = << >> THEN @ ELSE Tail(@)]

----------------------------------------------------------------------------
(* NotificationArea (notify.rs): one slot of contents, the area they are   *)
(* drawn in with the effect that runs on it, and the area's own events.    *)

NotificationArea_new ==
    [default_animation_time |-> 40,
     event_list             |-> DelayEventList_new,
     contents               |-> None,
     area                   |-> None]

\* the canvas of the contents, with no effect on it yet
update_area_canvas(self, t) ==
    [self EXCEPT !.area = Some([effect |-> None, begin |-> t])]

\* starts the hide animation on the area, if there is one, and schedules
\* the event that takes area and contents away
set_hide_animation(self, t) ==
    IF self.area # None
    THEN [self EXCEPT !.area = Some([effect |-> Some("hide"), begin |-> t]),
                      !.event_list = add_event(@, [kind |-> "clear"],
                                               t + self.default_animation_time)]
    ELSE self

\* schedules the hide animation 100 ticks after the insertion
set_appear_animation_short(self, t) ==
    IF self.area # None
    THEN [self EXCEPT !.area = Some([effect |-> Some("appear"), begin |-> t]),
                      !.event_list = add_event(@, [kind |-> "hide", scheduled |-> t + 100],
                                               t + 100)]
    ELSE self

set_appear_animation(self, t) ==
    IF self.area # None
    THEN [self EXCEPT !.area = Some([effect |-> Some("appear"), begin |-> t]),
                      !.event_list = add_event(@, [kind |-> "hide", scheduled |-> t + 120],
                                               t + 120)]
    ELSE self

insert_new_contents(self, contents, t) ==
    set_appear_animation(update_area_canvas([self EXCEPT !.contents = Some(contents)], t), t)

\* the closures of set_appear_animation and of set_hide_animation
notification_event_func(self, func) ==
    IF func.kind = "hide" THEN set_hide_animation(self, func.scheduled)
    ELSE [self EXCEPT !.area = None, !.contents = None]

\* flush_delay_event!(self, self.event_list, ctx, game_data, t)
RECURSIVE NotificationArea_flush_delay_event(_, _)
NotificationArea_flush_delay_event(self, t) ==
    LET top == move_top(self.event_list) IN
    IF top.event = None THEN self
    ELSE LET event == unwrap(top.event) IN
         IF event.run_time > t
         THEN [self EXCEPT !.event_list = add(top.list, event)]
         ELSE NotificationArea_flush_delay_event(
                  notification_event_func([self EXCEPT !.event_list = top.list],
                                          event.func), t)

\* the effect on the area has no part in what the area holds
NotificationArea_update(self, t) == NotificationArea_flush_delay_event(self, t)

----------------------------------------------------------------------------
(* CustomerDialogue and SuzuMiniSightSilhouette (tt_main_component.rs):    *)
(* the lines a customer says and the events that put them in the text      *)
(* balloon.  A line is the index it has in the dialogue; shown is history: *)
(* the lines put in the balloon with the tick they were put there at.      *)

CustomerDialogue_new(lines, time_step) ==
    [dialogue |-> lines, time_step |-> time_step, current_index |-> 0]

\* Vec::get(current_index).unwrap(): None stands for the panic
get_current_dialogue_line(d) ==
    IF d.current_index + 1 \in DOMAIN d.dialogue
    THEN Some(d.dialogue[d.current_index + 1])
    ELSE None

get_current_time_step(d) ==
    IF d.current_index + 1 \in DOMAIN d.time_step
    THEN d.time_step[d.current_index + 1]
    ELSE 0

CustomerDialogue_next(d) ==
    IF d.current_index < Len(d.dialogue) - 1
    THEN [d EXCEPT !.current_index = @ + 1]
    ELSE d

CustomerDialogue_last(d) == Len(d.dialogue) - 1 = d.current_index

SuzuMiniSightSilhouette_new ==
    [event_list        |-> DelayEventList_new,
     text              |-> None,
     customer_dialogue |-> CustomerDialogue_new(<< >>, << >>),
     shown             |-> << >>]

\* the loop of new_customer_update from the current line on
RECURSIVE schedule_lines(_, _, _)
schedule_lines(self, delay_time, t) ==
    LET line  == unwrap(get_current_dialogue_line(self.customer_dialogue))
        delay == delay_time + get_current_time_step(self.customer_dialogue)
        added == [self EXCEPT !.event_list =
                      add(@, DelayEvent_new([line |-> line], t + delay))]
    IN IF CustomerDialogue_last(added.customer_dialogue) THEN added
       ELSE schedule_lines(
                [added EXCEPT !.customer_dialogue = CustomerDialogue_next(@)], delay, t)

\* for a dialogue with at least one line
new_customer_update(self, customer_dialogue, t) ==
    schedule_lines([self EXCEPT !.customer_dialogue = customer_dialogue], 0, t)

\* the closure of new_customer_update: replace_text
silhouette_event_func(self, func, t) ==
    [self EXCEPT !.text = Some(func.line),
                 !.shown = Append(@, [line |-> func.line, at |-> t])]

RECURSIVE silhouette_run_effect(_, _)
silhouette_run_effect(self, t) ==
    LET top == move_top(self.event_list) IN
    IF top.event = None THEN self
    ELSE LET event == unwrap(top.event) IN
         IF event.run_time > t
         THEN [self EXCEPT !.event_list = add(top.list, event)]
         ELSE silhouette_run_effect(
                  silhouette_event_func([self EXCEPT !.event_list = top.list],
                                        event.func, t), t)

----------------------------------------------------------------------------
(* TextureAnimation (map_object.rs).  A texture is named by the mode and   *)
(* the position of its image in the sequence of the mode; modes count      *)
(* from 0 as in the source.                                                *)

OneShot == [kind |-> "OneShot", cur |-> 0, lim |-> 0]

Loop == [kind |-> "Loop", cur |-> 0, lim |-> 0]

Times(cur, lim) == [kind |-> "Times", cur |-> cur, lim |-> lim]

SeqTexture_new(len) == [len |-> len, index |-> 0]

SeqTexture_reset(self) == [self EXCEPT !.index = 0]

SeqTexture_current_frame(self) == self.index % self.len

\* the index moves on before the end of the sequence is tested
SeqTexture_next_frame(self, t) ==
    LET moved == [self EXCEPT !.index = self.index + 1]
    IN [self     |-> moved,
        finished |-> t.kind \in { "OneShot", "Times" } /\ moved.index = moved.len,
        frame    |-> SeqTexture_current_frame(moved)]

TextureAnimation_new(lens, mode, frame_speed) ==
    [textures       |-> [i \in DOMAIN lens |-> SeqTexture_new(lens[i])],
     current_mode   |-> mode,
     texture        |-> [mode |-> mode, frame |-> 0],
     animation_type |-> Loop,
     next_mode      |-> mode,
     frame_speed    |-> frame_speed]

change_mode(self, mode, animation_type, next_mode) ==
    [self EXCEPT !.current_mode = mode,
                 !.next_mode = next_mode,
                 !.animation_type = animation_type,
                 !.textures[mode + 1] = SeqTexture_reset(@)]

\* the end of a pass.  The pattern Times(mut cur, lim) copies the counter:
\* cur + 1 is compared with lim and is not stored in animation_type.
one_loop_finish(self) ==
    IF self.animation_type.kind = "OneShot"
    THEN [self EXCEPT !.animation_type = Loop, !.current_mode = self.next_mode]
    ELSE IF self.animation_type.kind = "Times"
    THEN LET cur == self.animation_type.cur + 1
         IN IF cur < self.animation_type.lim
            THEN [self EXCEPT !.textures[self.current_mode + 1] = SeqTexture_reset(@),
                              !.texture = [mode |-> self.current_mode, frame |-> 0]]
            ELSE [self EXCEPT !.animation_type = Loop,
                              !.current_mode = self.next_mode]
    ELSE self

TextureAnimation_next_frame(self) ==
    LET r     == SeqTexture_next_frame(self.textures[self.current_mode + 1],
                                       self.animation_type)
        moved == [self EXCEPT !.textures[self.current_mode + 1] = r.self]
    IN IF r.finished
       THEN one_loop_finish(moved)
       ELSE [moved EXCEPT !.texture = [mode |-> self.current_mode, frame |-> r.frame]]

try_next_frame(self, t) ==
    IF t % self.frame_speed = 0 THEN TextureAnimation_next_frame(self) ELSE self

----------------------------------------------------------------------------
(* SuzuMiniSight's objects on their way to the desk                        *)
(* (tt_main_component.rs).  A DeskObject is its identity and whether its   *)
(* move has stopped.                                                       *)

DeskObject_new(id) == [id |-> id, stop |-> FALSE]

SuzuMiniSight_new == [dropping_to_desk |-> << >>]

\* the loop of check_drop_desk; index counts from 1 here and from 0 in the
\* source.  index moves on after a removal as well as without one.
RECURSIVE check_drop_desk_from(_, _, _)
check_drop_desk_from(dropping_to_desk, drop_to_desk, index) ==
    IF index > Len(dropping_to_desk)
    THEN [dropping_to_desk |-> dropping_to_desk, drop_to_desk |-> drop_to_desk]
    ELSE IF dropping_to_desk[index].stop
    THEN check_drop_desk_from(swap_remove(dropping_to_desk, index),
                              Append(drop_to_desk, dropping_to_desk[index]),
                              index + 1)
    ELSE check_drop_desk_from(dropping_to_desk, drop_to_desk, index + 1)

check_drop_desk(self) == check_drop_desk_from(self.dropping_to_desk, << >>, 1)

----------------------------------------------------------------------------
(* SaveScene (scene/save_scene.rs).  A ScreenTileEffect is its type, its   *)
(* animation time and the tick it begins at.                               *)

Save == "Save"

Scenario == "Scenario"

PoppingTransition == "PoppingTransition"

ScreenTileEffect_new(animation_time, effect_type, t) ==
    [effect_type |-> effect_type, animation_time |-> animation_time, began |-> t]

\* the tick handed to add_event by the scene's three callers is the literal 31
SaveScene_new ==
    [event_list              |-> add_event(DelayEventList_new, "open_effect_end", 31),
     scene_transition_effect |-> Some(ScreenTileEffect_new(30, "Open", 0)),
     scene_transition        |-> Save,
     scene_transition_type   |-> Keep,
     clock                   |-> 0]

exit_scene_poping(self, t) ==
    [self EXCEPT
         !.scene_transition_effect = Some(ScreenTileEffect_new(30, "Close", t)),
         !.event_list = add_event(@, "exit_scene_poping", 31)]

load_and_scene_swap(self, t) ==
    [self EXCEPT
         !.scene_transition_effect = Some(ScreenTileEffect_new(30, "Close", t)),
         !.event_list = add_event(@, "load_and_scene_swap", 31)]

\* the closures of the scene's events
save_scene_event_func(self, func) ==
    IF func = "open_effect_end"
    THEN [self EXCEPT !.scene_transition_effect = None]
    ELSE IF func = "exit_scene_poping"
    THEN [self EXCEPT !.scene_transition = Scenario,
                      !.scene_transition_type = PoppingTransition]
    ELSE [self EXCEPT !.scene_transition = Scenario,
                      !.scene_transition_type = SwapTransition]

\* flush_delay_event!(self, self.event_list, ctx, self.get_current_clock())
RECURSIVE SaveScene_flush_delay_event(_, _)
SaveScene_flush_delay_event(self, t) ==
    IF self.event_list = << >> THEN self
    ELSE LET popped == move_top(self.event_list)
             event  == unwrap(popped.event)
         IN IF event.run_time > t THEN self
            ELSE SaveScene_flush_delay_event(
                     save_scene_event_func(
                         [self EXCEPT !.event_list = popped.list], event.func),
                     t)

\* a click on a save slot that holds data, on the exit button, or elsewhere
mouse_button_up_event(self, target) ==
    LET t == self.clock IN
    IF target = "slot" THEN load_and_scene_swap(self, t)
    ELSE IF target = "exit" THEN exit_scene_poping(self, t)
    ELSE self

SaveScene_pre_process(self) == SaveScene_flush_delay_event(self, self.clock)

SaveScene_post_process(self) == [self EXCEPT !.clock = @ + 1]

----------------------------------------------------------------------------
(* DreamScene and its Character (object/mod.rs).  One unit of the dream    *)
(* scene is 0.08 pixel, the gravity its player is built with, so that the  *)
(* speeds it reaches are whole numbers: the up key's 12 pixels are 150,    *)
(* the cap of 10 pixels is 125 and the floor at 600 pixels is 7500.        *)

DreamSpeedCap == 125

DreamFloor == 7500

UpKeySpeed == Vec(0, -150)

DreamBorder == Rect(0, 0, 17075, 7500)

\* the drawing size of the ghost texture at its scale of 0.1
DreamDrawingSize == Vec(25, 25)

\* the tiles of the dream map that block: a ground of three tiles of 100
\* units, its top 100 units below the top of the screen
DreamGround == << Rect(0, 100, 100, 100), Rect(100, 100, 100, 100), Rect(200, 100, 100, 100) >>

Character_TextureSpeedInfo_new(gravity_acc, speed, border) ==
    [fall_begin |-> 0, border |-> border, gravity_acc |-> gravity_acc, speed |-> speed]

Character_fall_start(info, t) == [info EXCEPT !.fall_begin = t]

apply_gravity(info, t) ==
    LET y == info.speed.y + info.gravity_acc * (t - info.fall_begin) IN
    [info EXCEPT !.speed = Vec(@.x, IF y > DreamSpeedCap THEN DreamSpeedCap ELSE y)]

\* obj stands for the SimpleObject by its position and drawing size
Character_new(position, drawing_size, info) ==
    [last_position     |-> position,
     map_position      |-> position,
     last_map_position |-> position,
     speed_info        |-> info,
     position          |-> position,
     drawing_size      |-> drawing_size,
     fixes             |-> << >>]

get_drawing_area(self) ==
    Rect(self.position.x, self.position.y, self.drawing_size.x, self.drawing_size.y)

gravity_move(self, t) ==
    LET info  == apply_gravity(self.speed_info, t)
        pos   == self.position
        moved == Vec(pos.x + info.speed.x, pos.y + info.speed.y)
        next  == IF moved.y > info.border.y + info.border.h
                 THEN Vec(moved.x, DreamFloor) ELSE moved
    IN [self EXCEPT !.speed_info = info,
                    !.last_map_position = self.map_position,
                    !.map_position = Vec(@.x + info.speed.x, @.y + info.speed.y),
                    !.last_position = pos,
                    !.position = next]

\* the tile map's check_collision on a rectangle: the first blocking tile it
\* meets, as the boundly of the result
tile_map_check_collision(area) ==
    LET hits == SelectSeq(DreamGround, LAMBDA tile : overlaps(tile, area)) IN
    IF hits = << >> THEN [collision |-> FALSE, boundly |-> None]
    ELSE [collision |-> TRUE, boundly |-> Some(Head(hits))]

\* Character::fix_collision; None where info.boundly.unwrap() panics
fix_collision(self, info, t) ==
    IF info.boundly = None THEN None
    ELSE LET pos  == self.position
             v    == unwrap(info.boundly)
             next == Vec(pos.x, v.y - self.drawing_size.y)
         IN Some([self EXCEPT
                     !.speed_info = Character_fall_start(@, t),
                     !.map_position = Vec(@.x, @.y + next.y - pos.y),
                     !.position = next,
                     !.fixes = Append(@, [offset |-> Vec(0, next.y - pos.y),
                                          at |-> self.map_position,
                                          collided |-> info.collision])])

DreamScene_new ==
    [player |-> Character_new(Vec(0, 0), DreamDrawingSize,
                              Character_TextureSpeedInfo_new(1, Vec(0, 0), DreamBorder)),
     clock  |-> 0]

up_key_handler(scene) ==
    [scene EXCEPT !.player.speed_info =
                      Character_fall_start([@ EXCEPT !.speed = UpKeySpeed], scene.clock)]

DreamScene_check_collision(scene) ==
    LET collision_info == tile_map_check_collision(get_drawing_area(scene.player)) IN
    IF collision_info.collision
    THEN [scene EXCEPT !.player = unwrap(fix_collision(@, collision_info, scene.clock))]
    ELSE scene

\* check_key_event with the up key pressed or not, the player's update (its
\* one move, gravity_move), then the collision check
DreamScene_pre_process(scene, up) ==
    LET keyed == IF up THEN up_key_handler(scene) ELSE scene
        moved == [keyed EXCEPT !.player = gravity_move(@, keyed.clock)]
    IN DreamScene_check_collision(moved)

DreamScene_post_process(scene) == [scene EXCEPT !.clock = @ + 1]

DreamInit == dream_scene = DreamScene_new

\* no call made on the tile map yet
MapInit == map_query = None /\ map_result = None

\* no scene, notification area, dialogue, animation or desk built yet
StageInit ==
    /\ shop = None
    /\ notification = None
    /\ dialogue = None
    /\ animation = None
    /\ desk = None
    /\ save_scene = None

CustomerInit ==
    /\ customer \in { CustomerCharacter_new(
                          MapObject_new(CustomerDrawingSize, 0,
                                        TextureSpeedInfo_new(Vec(0, 0), ActorSpeedBorder),
                                        p, CustomerCollisionCrop))
                      : p \in StartPositions }
    /\ clock = 0
    /\ n_forced = 0
    /\ n_idle = 0
    /\ enq_log = << >>
    /\ goal_log = << >>
    /\ forced_at = None

\* the player: a 40 x 40 sprite cropped to (0.1, 0.1)..(0.9, 0.9) at map
\* position (100, 100), or a sprite of the customer's size left of the wall
PlayerStarts ==
    { MapObject_new(Vec(400, 400), 0, TextureSpeedInfo_new(Vec(0, 0), ActorSpeedBorder),
                    Vec(1000, 1000), Rect(1, 1, 9, 9)),
      MapObject_new(CustomerDrawingSize, 0, TextureSpeedInfo_new(Vec(0, 0), ActorSpeedBorder),
                    Vec(40, 5), CustomerCollisionCrop) }

\* the other character stands still; its collision box is its whole sprite
Blocker(x, y, w, h) ==
    MapObject_new(Vec(w, h), 0, TextureSpeedInfo_new(Vec(0, 0), ActorSpeedBorder),
                  Vec(x, y), Rect(0, 0, 10, 10))

\* boxes of the player's size, wider, narrower, taller and flatter than it,
\* on every side of the box (104, 104, 32, 32), and one out of its reach
NpcStarts ==
    { Blocker(1100, 1040, 320, 320),
      Blocker(900, 1040, 400, 320),
      Blocker(1000, 1040, 600, 320),
      Blocker(1040, 900, 320, 400),
      Blocker(1040, 1200, 200, 200),
      Blocker(1200, 1100, 200, 200),
      Blocker(1380, 1040, 320, 320),
      Blocker(3000, 3000, 320, 320) }

PlayerSpeeds == { -20, 0, 7 }

\* speeds along x that the state machine of a customer leaves for the next
\* frame: walking left, standing, walking right
NpcSpeeds == { -WalkSpeed, 0, WalkSpeed }

CollisionInit ==
    /\ player \in PlayerStarts
    /\ npc \in NpcStarts
    /\ query_info = new_not_collision
    /\ fix_result = None
    /\ n_moves = 0
    /\ last_arg = None

\* the scene's own start: the two characters far from each other
FarApartInit ==
    /\ CollisionInit
    /\ player.map_position.current = Vec(1000, 1000)
    /\ npc.map_position.current = Vec(3000, 3000)

Init ==
    /\ SpeedInit /\ SchedInit /\ CustomerInit /\ FarApartInit /\ MapInit /\ DreamInit /\ StageInit
    /\ last_op = "init"

\* the start of CollisionSpec: any of the pairs, the customer at rest
CollisionStart ==
    /\ SpeedInit /\ SchedInit /\ CustomerInit /\ CollisionInit /\ MapInit /\ DreamInit /\ StageInit
    /\ last_op = "init"
    /\ customer.character.map_position.current = Vec(-3, -4)

\* the start of ResistSpec: any of the infos, everything else at rest
ResistStart ==
    /\ speed_info = TextureSpeedInfo_new(Vec(0, 0), NarrowSpeedBorder)
    /\ ResistInit
    /\ SchedInit /\ CustomerInit /\ FarApartInit /\ MapInit /\ DreamInit /\ StageInit /\ last_op = "init"
    /\ customer.character.map_position.current = Vec(-3, -4)

\* MapObject.map_position of customers that stand beside the wall of column
\* 2: the collision box on the corner of tile (3, 1), inside that tile, and
\* inside tile (3, 0) with the box one unit into the wall
WallStartPositions == { Vec(87, 26), Vec(92, 40), Vec(100, 30), Vec(86, 9) }

\* the start of WalkSpec: a customer anywhere of StartPositions or beside the wall
WalkStart ==
    /\ SpeedInit /\ SchedInit /\ FarApartInit /\ MapInit /\ DreamInit /\ StageInit
    /\ last_op = "init"
    /\ customer \in { CustomerCharacter_new(
                          MapObject_new(CustomerDrawingSize, 0,
                                        TextureSpeedInfo_new(Vec(0, 0), ActorSpeedBorder),
                                        p, CustomerCollisionCrop))
                      : p \in StartPositions \cup WallStartPositions }
    /\ clock = 0
    /\ n_forced = 0
    /\ n_idle = 0
    /\ enq_log = << >>
    /\ goal_log = << >>
    /\ forced_at = None

\* the start of TileMapSpec: everything at rest
TileMapStart == Init /\ customer.character.map_position.current = Vec(-3, -4)

speed_vars == << speed_info, resist_info, resist_clock >>

sched_vars == << owner, sched_clock >>

map_vars == << map_query, map_result >>

dream_vars == << dream_scene >>

stage_vars == << shop, notification, dialogue, animation, desk, save_scene >>


customer_vars == << customer, clock, n_forced, n_idle, enq_log, goal_log, forced_at >>

collision_vars == << player, npc, query_info, fix_result, n_moves, last_arg >>

\* every variable of the actors, the tile map and the dream scene
actor_vars == << speed_vars, sched_vars, customer_vars, collision_vars, map_vars, dream_vars >>

----------------------------------------------------------------------------
(* SpeedSpec: any sequence of speed writes on one TextureSpeedInfo *)

SpeedArgs == (-MaxSpeedArg) .. MaxSpeedArg

AddSpeed ==
    \E x \in SpeedArgs, y \in SpeedArgs :
        LET next == add_speed(speed_info, Vec(x, y)) IN
        /\ next.speed.x \in SpeedArgs
        /\ next.speed.y \in SpeedArgs
        /\ speed_info' = next
        /\ last_op' = "add_speed"
        /\ UNCHANGED << resist_info, resist_clock, sched_vars, map_vars, dream_vars, stage_vars, customer_vars, collision_vars >>

SetSpeed ==
    \E x \in SpeedArgs, y \in SpeedArgs :
        /\ speed_info' = set_speed(speed_info, Vec(x, y))
        /\ last_op' = "set_speed"
        /\ UNCHANGED << resist_info, resist_clock, sched_vars, map_vars, dream_vars, stage_vars, customer_vars, collision_vars >>

SetSpeedX ==
    \E x \in SpeedArgs :
        /\ speed_info' = set_speed_x(speed_info, x)
        /\ last_op' = "set_speed_x"
        /\ UNCHANGED << resist_info, resist_clock, sched_vars, map_vars, dream_vars, stage_vars, customer_vars, collision_vars >>

SetSpeedY ==
    \E y \in SpeedArgs :
        /\ speed_info' = set_speed_y(speed_info, y)
        /\ last_op' = "set_speed_y"
        /\ UNCHANGED << resist_info, resist_clock, sched_vars, map_vars, dream_vars, stage_vars, customer_vars, collision_vars >>

SpeedNext == AddSpeed \/ SetSpeed \/ SetSpeedX \/ SetSpeedY

SpeedSpec == Init /\ [][SpeedNext]_vars

----------------------------------------------------------------------------
(* ResistSpec: apply_resistance called tick after tick on one info, and    *)
(* FairResistSpec, in which the calls go on as long as the clock allows    *)

ApplyResistance ==
    /\ resist_clock < MaxResistClock
    /\ resist_info' = apply_resistance(resist_info, resist_clock)
    /\ resist_clock' = resist_clock + 1
    /\ last_op' = "apply_resistance"
    /\ UNCHANGED << speed_info, sched_vars, map_vars, dream_vars, stage_vars, customer_vars, collision_vars >>

ResistNext == ApplyResistance

ResistSpec == ResistStart /\ [][ResistNext]_vars

FairResistSpec == ResistSpec /\ WF_vars(ApplyResistance)

----------------------------------------------------------------------------
(* SchedSpec: any sequence of add_event and flush calls on one owner's     *)
(* list, while the host loop's tick counter advances                       *)

SchedAddEvent ==
    \E t \in 0 .. MaxTrigger :
        /\ owner.n_added < MaxEvents
        /\ owner' = owner_add_event(owner, t)
        /\ last_op' = "add_event"
        /\ UNCHANGED << sched_clock, speed_vars, customer_vars, collision_vars, map_vars, dream_vars, stage_vars >>

SchedFlush ==
    /\ owner' = run_effect(owner, sched_clock)
    /\ last_op' = "flush"
    /\ UNCHANGED << sched_clock, speed_vars, customer_vars, collision_vars, map_vars, dream_vars, stage_vars >>

SchedAdvance ==
    /\ sched_clock < MaxSchedClock
    /\ sched_clock' = sched_clock + 1
    /\ last_op' = "advance"
    /\ UNCHANGED << owner, speed_vars, customer_vars, collision_vars, map_vars, dream_vars, stage_vars >>

SchedNext == SchedAddEvent \/ SchedFlush \/ SchedAdvance

SchedSpec == Init /\ [][SchedNext]_vars

----------------------------------------------------------------------------
(* Spec: one customer of the shop scene.  Tick is one frame in which the   *)
(* scene updates its customers, Forced a call of the public                *)
(* set_destination_forced from outside, at any moment between two frames.  *)

\* the events a flush at tick t is to run, in the order it meets them
RECURSIVE DueFromTop(_, _)
DueFromTop(list, t) ==
    IF list = << >> THEN << >>
    ELSE LET event == list[Len(list)] IN
         IF event.run_time > t THEN << >>
         ELSE << event >> \o DueFromTop(SubSeq(list, 1, Len(list) - 1), t)

\* the waypoints those events carry, in that order
RECURSIVE RoutesOf(_)
RoutesOf(events) ==
    IF events = << >> THEN << >>
    ELSE LET route == Head(events).func.maybe_next_route IN
         (IF route = None THEN << >> ELSE unwrap(route)) \o RoutesOf(Tail(events))

TickUntil(limit) ==
    /\ clock < limit
    /\ \E dest \in random_select_values :
           LET before  == [customer EXCEPT !.request = None]
               moved   == customer_move_and_collision_check(before)
               flushed == flush_delay_event(moved, clock)
               next    == try_update_move_effect(moved, CounterTile, clock, dest)
           IN /\ customer' = next
              /\ enq_log' = enq_log \o RoutesOf(DueFromTop(moved.event_list, clock))
              /\ goal_log' = IF Len(next.move_queue) < Len(flushed.move_queue)
                             THEN Append(goal_log, next.current_goal)
                             ELSE goal_log
    /\ clock' = clock + 1
    /\ last_op' = "tick"
    /\ UNCHANGED << n_forced, n_idle, forced_at, speed_vars, sched_vars, map_vars, dream_vars, stage_vars, collision_vars >>

Tick == TickUntil(MaxClock)

\* the exit, and a tile no route leads to
ForcedDests == { ExitTile, move_data[2] }

\* the clocks at which a call from outside arrives: in the first frames, or
\* from shortly before the first route event is due
ForcedClocks == (0 .. MaxEarly) \cup ((RouteDelay - MaxEarly) .. MaxClock)

Forced ==
    /\ n_forced < MaxForced
    /\ clock \in ForcedClocks
    /\ \E dest \in ForcedDests :
           LET next == set_destination_forced([customer EXCEPT !.request = None], dest)
           IN /\ customer' = next
              /\ enq_log' = next.move_queue
              /\ goal_log' = << >>
              /\ forced_at' = IF unwrap(next.request).route # None
                               THEN Some(clock)
                               ELSE forced_at
    /\ n_forced' = n_forced + 1
    /\ last_op' = "forced"
    /\ UNCHANGED << clock, n_idle, speed_vars, sched_vars, map_vars, dream_vars, stage_vars, collision_vars >>

Next == Tick \/ Forced

Spec == Init /\ [][Next]_vars

----------------------------------------------------------------------------
(* TickSpec: the same customer over a long run in which nothing outside    *)
(* calls set_destination_forced; in an Idle frame a menu is open and the   *)
(* scene skips the update of its customers while the clock goes on.        *)

LongTick == TickUntil(MaxLongClock)

Idle ==
    /\ clock < MaxLongClock
    /\ n_idle < MaxIdle
    /\ clock' = clock + 1
    /\ n_idle' = n_idle + 1
    /\ customer' = [customer EXCEPT !.request = None]
    /\ last_op' = "idle"
    /\ UNCHANGED << n_forced, enq_log, goal_log, forced_at, speed_vars, sched_vars, map_vars, dream_vars, stage_vars, collision_vars >>

TickNext == LongTick \/ Idle

TickSpec == Init /\ [][TickNext]_vars

----------------------------------------------------------------------------
(* WalkSpec: the frames of one customer that may stand beside the wall, so *)
(* that the tile map corrects it while it walks                            *)

WalkNext == Tick

WalkSpec == WalkStart /\ [][WalkNext]_vars

----------------------------------------------------------------------------
(* CollisionSpec: the player is moved frame after frame at speeds the key  *)
(* handlers set, next to one character that stands still, and the          *)
(* collision query and the two fix functions are called on the pair        *)

\* ShopScene::move_playable_character at a speed the key and mouse handlers set
MovePlayable ==
    \E x \in PlayerSpeeds, y \in PlayerSpeeds :
        LET keyed == [player EXCEPT !.speed_info = set_speed(@, Vec(x, y))] IN
        /\ n_moves < MaxMoves
        /\ player' = move_playable_character(keyed, npc)
        /\ n_moves' = n_moves + 1
        /\ last_op' = "move_playable"
        /\ UNCHANGED << npc, query_info, fix_result, last_arg,
                        speed_vars, sched_vars, map_vars, dream_vars, stage_vars, customer_vars >>

\* check_collision_with_character, then both fix functions on its result
QueryCharacter ==
    LET info == check_collision_with_character(player, npc) IN
    /\ query_info' = info
    /\ fix_result' = Some([vertical |-> fix_collision_vertical(player, info),
                           horizon  |-> fix_collision_horizon(player, info)])
    /\ last_op' = "query_character"
    /\ UNCHANGED << player, npc, n_moves, last_arg, speed_vars, sched_vars, map_vars, dream_vars, stage_vars, customer_vars >>

\* the tile map's check_character_collision, then both fix functions
QueryTiles ==
    LET info == check_character_collision(player) IN
    /\ query_info' = info
    /\ fix_result' = Some([vertical |-> fix_collision_vertical(player, info),
                           horizon  |-> fix_collision_horizon(player, info)])
    /\ last_op' = "query_tiles"
    /\ UNCHANGED << player, npc, n_moves, last_arg, speed_vars, sched_vars, map_vars, dream_vars, stage_vars, customer_vars >>

CollisionNext == MovePlayable \/ QueryCharacter \/ QueryTiles

CollisionSpec == CollisionStart /\ [][CollisionNext]_vars

----------------------------------------------------------------------------
(* FrameSpec: whole frames of ShopScene::pre_process for the player and    *)
(* one member of character_group, whose speed is the one its state machine *)
(* left at the end of the frame before                                     *)

\* CharacterGroup::move_and_collision_check for the one member
move_and_collision_check(e) ==
    customer_move_and_collision_check([character |-> e]).character

\* the frame with the group moved before the player
pre_process_group_first(p, e) ==
    LET moved == move_and_collision_check(e) IN
    [player |-> move_playable_character(p, moved), npc |-> moved]

\* the movement part of ShopScene::pre_process: the player, then the group
pre_process(p, e) ==
    [player |-> move_playable_character(p, e), npc |-> move_and_collision_check(e)]

Frame ==
    \E x \in PlayerSpeeds, y \in PlayerSpeeds, v \in NpcSpeeds :
        LET keyed  == [player EXCEPT !.speed_info = set_speed(@, Vec(x, y))]
            walker == [npc EXCEPT !.speed_info = set_speed(@, Vec(v, 0))]
            next   == pre_process(keyed, walker)
        IN /\ n_moves < MaxFrames
           /\ player' = next.player
           /\ npc' = next.npc
           /\ n_moves' = n_moves + 1
           /\ last_op' = "frame"
           /\ UNCHANGED << query_info, fix_result, last_arg,
                           speed_vars, sched_vars, map_vars, dream_vars, stage_vars, customer_vars >>

FrameNext == Frame

FrameSpec == CollisionStart /\ [][FrameNext]_vars

----------------------------------------------------------------------------
(* MapObjectSpec: any sequence of calls of move_map, undo_move and         *)
(* update_display_position on the player's MapObject                       *)

MoveOffsets == { Vec(0, 0), Vec(7, 0), Vec(0, -20), Vec(-14, 14) }

MoveMap ==
    \E offset \in MoveOffsets :
        /\ n_moves < MaxCalls
        /\ player' = move_map(player, offset)
        /\ last_arg' = Some(offset)
        /\ n_moves' = n_moves + 1
        /\ last_op' = "move_map"
        /\ UNCHANGED << npc, query_info, fix_result, speed_vars, sched_vars, map_vars, dream_vars, stage_vars, customer_vars >>

UndoMove ==
    /\ player' = undo_move(player)
    /\ last_arg' = None
    /\ last_op' = "undo_move"
    /\ UNCHANGED << npc, query_info, fix_result, n_moves,
                    speed_vars, sched_vars, map_vars, dream_vars, stage_vars, customer_vars >>

UpdateDisplayPosition ==
    /\ player' = update_display_position(player, SceneCamera)
    /\ last_arg' = None
    /\ last_op' = "update_display_position"
    /\ UNCHANGED << npc, query_info, fix_result, n_moves,
                    speed_vars, sched_vars, map_vars, dream_vars, stage_vars, customer_vars >>

MapObjectNext == MoveMap \/ UndoMove \/ UpdateDisplayPosition

MapObjectSpec == CollisionStart /\ [][MapObjectNext]_vars

----------------------------------------------------------------------------
(* HeadingSpec: override_move_effect called on a customer with goal points *)
(* at every small offset from where it stands                              *)

Offsets == { Vec(dx, dy) : dx \in (-MaxOffset) .. MaxOffset, dy \in (-MaxOffset) .. MaxOffset }

OverrideMoveEffect ==
    \E offset \in Offsets :
        LET current == get_map_position_with_collision_top_offset(customer.character) IN
        /\ n_moves < MaxCalls
        /\ customer' = override_move_effect(
                            customer, Vec(current.x + offset.x, current.y + offset.y))
        /\ last_arg' = Some(offset)
        /\ n_moves' = n_moves + 1
        /\ last_op' = "override_move_effect"
        /\ UNCHANGED << clock, n_forced, n_idle, enq_log, goal_log, forced_at,
                        player, npc, query_info, fix_result, speed_vars, sched_vars, map_vars, dream_vars, stage_vars >>

HeadingNext == OverrideMoveEffect

HeadingSpec == Init /\ [][HeadingNext]_vars

----------------------------------------------------------------------------
(* TileMapSpec: find_shortest_route or the two coordinate conversions      *)
(* called once on a tile map: every grid without obstacles up to MaxSide a *)
(* side, the grid of the customer's shop, and a grid of five by five tiles *)
(* with and without an obstacle in its middle                              *)

OpenGrid(width, height) == [y \in 1 .. height |-> [x \in 1 .. width |-> FALSE]]

BlockedAt(grid, tp) == [grid EXCEPT ![tp.y + 1][tp.x + 1] = TRUE]

MiddleBlockedGrid == BlockedAt(OpenGrid(5, 5), Vec(2, 2))

Grids ==
    { OpenGrid(w, h) : w \in 1 .. MaxSide, h \in 1 .. MaxSide }
        \cup { collision_map, OpenGrid(5, 5), MiddleBlockedGrid }

\* the tiles of the grid and the ones around it
TilesAround(grid) ==
    { Vec(x, y) : x \in (-1) .. Len(grid[1]), y \in (-1) .. Len(grid) }

FindShortestRoute ==
    \E grid \in Grids :
        \E start \in TilesOf(grid) \cup { Vec(-1, 0) }, goal \in TilesOf(grid) :
            /\ map_query = None
            /\ map_query' = Some([grid |-> grid, start |-> start, goal |-> goal])
            /\ map_result' = find_shortest_route_in(grid, start, goal)
            /\ last_op' = "find_shortest_route"
            /\ UNCHANGED << speed_vars, sched_vars, customer_vars, collision_vars,
                               dream_vars, stage_vars >>

\* a tile's corner, or a point inside the tile, converted back to a tile
MapPositionToTilePosition ==
    \E grid \in Grids :
        \E tp \in TilesAround(grid), inside \in { Vec(0, 0), Vec(TileSize - 1, 1) } :
            LET corner == tile_position_to_map_position(tp)
                pos    == Vec(corner.x + inside.x, corner.y + inside.y)
            IN /\ map_query = None
               /\ map_query' = Some([grid |-> grid, tile |-> tp, pos |-> pos])
               /\ map_result' = map_position_to_tile_position_in(grid, pos)
               /\ last_op' = "map_position_to_tile_position"
               /\ UNCHANGED << speed_vars, sched_vars, customer_vars, collision_vars,
                               dream_vars, stage_vars >>

TileMapNext == FindShortestRoute \/ MapPositionToTilePosition

TileMapSpec == TileMapStart /\ [][TileMapNext]_vars

----------------------------------------------------------------------------
(* SceneSpec: the game in one of its two scenes with collisions, the shop  *)
(* scene frame after frame or the dream scene frame after frame            *)

ShopFrame == last_op # "dream_frame" /\ Frame

DreamFrame ==
    \E up \in BOOLEAN :
        /\ last_op # "frame"
        /\ dream_scene.clock < MaxDreamClock
        /\ dream_scene' = DreamScene_post_process(DreamScene_pre_process(dream_scene, up))
        /\ last_op' = "dream_frame"
        /\ UNCHANGED << speed_vars, sched_vars, customer_vars, collision_vars, map_vars, stage_vars >>

SceneNext == ShopFrame \/ DreamFrame

SceneSpec == CollisionStart /\ [][SceneNext]_vars

----------------------------------------------------------------------------
(* ShopSpec: one ShopScene frame after frame, with a customer on its way   *)
(* to the counter.  The owner of the scene, which is not part of the       *)
(* source, comes back to a scene it has stacked with switched_and_restart  *)
(* and may take the request at the head of the queue.                      *)

\* the customers of the scene, walking or waiting
CustomersOf(scene) ==
    { scene.character_group[i] : i \in DOMAIN scene.character_group }
    \cup { scene.customer_queue[i] : i \in DOMAIN scene.customer_queue }

\* the customers in the shop, walking or waiting in the queue
NumberOfCustomers(scene) == Len(scene.character_group) + Len(scene.customer_queue)

\* a customer that has just left Ready for the first waypoint of its route
\* to the counter
ApproachingCustomer ==
    LET routed == route_event_func(SampleCustomer,
                      [maybe_next_route |->
                           update_current_destination(SampleCustomer, CounterTile)])
    IN [update_move_effect(routed, 0, CounterTile) EXCEPT !.request = None]

\* the frame after the route event of the first customer has run
ShopStartClock == RouteDelay + 21

RestOfShopInit ==
    /\ SpeedInit /\ SchedInit /\ CustomerInit /\ FarApartInit /\ MapInit /\ DreamInit
    /\ customer.character.map_position.current = Vec(-3, -4)
    /\ last_op = "init"
    /\ notification = None
    /\ dialogue = None
    /\ animation = None
    /\ desk = None
    /\ save_scene = None

\* a customer that has been served before and walks to the counter again
ServedCustomer == [ApproachingCustomer EXCEPT !.shopping_is_done = TRUE]

\* a customer one frame further on its way
OneFrameOn(c) == try_update_move_effect(customer_move_and_collision_check(c),
                                       CounterTile, 0, CounterTile)

\* the customers that walk in the shop at the start: one or two on their
\* first way to the counter, or one of them with a customer served before
StartGroups ==
    { << Named(ApproachingCustomer, 1) >>,
      << Named(ApproachingCustomer, 1), Named(OneFrameOn(ApproachingCustomer), 2) >>,
      << Named(ApproachingCustomer, 1), Named(ServedCustomer, 3) >> }

ShopStart ==
    /\ RestOfShopInit
    /\ \E group \in StartGroups :
           LET served == { group[i].name : i \in { k \in DOMAIN group :
                                                      group[k].shopping_is_done } }
           IN shop = [ShopScene_new EXCEPT
                          !.clock = ShopStartClock,
                          !.shop_clock = ShopClock_new(8, 20),
                          !.character_group = sort_by_y_position(group),
                          !.n_spawned = 3,
                          !.queued_log = IF served = {} THEN << >> ELSE << 3 >>,
                          !.request_log = IF served = {} THEN << >> ELSE << 3 >>,
                          !.handed_back = served]

SwitchSceneEvents == { MainDesk, Copying }

\* the clocks at which the player steps on an event
EnterClocks == ShopStartClock .. (ShopStartClock + MaxEnter)

\* where the player's move of this frame leaves it: on no event, further
\* on the event it stands on, or, once in a run, on an event it steps on
PlayerMoves(scene, enter_clocks) ==
    { [player_on |-> None, stayed |-> 0, visited |-> scene.visited] }
    \cup (IF scene.player_on # None /\ scene.stayed < MaxStay
          THEN { [player_on |-> scene.player_on, stayed |-> scene.stayed + 1,
                  visited |-> TRUE] }
          ELSE {})
    \cup (IF scene.player_on = None /\ ~scene.visited /\ scene.clock \in enter_clocks
          THEN { [player_on |-> Some(id), stayed |-> 1, visited |-> TRUE]
                 : id \in SwitchSceneEvents }
          ELSE {})

\* pre_process and post_process of one frame; the scene runs while its
\* owner has it on top, that is until post_process returns a transition
\* to another scene
ShopSceneFrameUntil(first, limit, enter_clocks) ==
    /\ shop.clock < limit
    /\ ~shop.panicked
    /\ shop.transition_scene = SuzunaShop
    /\ \E move \in PlayerMoves(shop, enter_clocks), spawn \in BOOLEAN :
       \E dests \in [1 .. (NumberOfCustomers(shop) + IF spawn THEN 1 ELSE 0)
                        -> random_select_values] :
           /\ spawn => /\ NumberOfCustomers(shop) < MaxCustomers
                       /\ shop.clock <= first + MaxSpawnDelay
           /\ shop' = ShopScene_post_process(
                          ShopScene_pre_process(
                              [shop EXCEPT !.player_on = move.player_on,
                                           !.stayed = move.stayed,
                                           !.visited = move.visited],
                              FALSE, spawn, move.player_on, dests))
    /\ last_op' = "shop_frame"
    /\ UNCHANGED << actor_vars, notification, dialogue, animation, desk, save_scene >>

ShopSceneFrame ==
    ShopSceneFrameUntil(ShopStartClock, ShopStartClock + MaxShopFrames, EnterClocks)

\* the owner comes back to the scene it had stacked another one on
SwitchedAndRestart ==
    /\ shop.transition_status = StackingTransition
    /\ shop.transition_scene # SuzunaShop
    /\ ~shop.panicked
    /\ \E take \in BOOLEAN :
           shop' = switched_and_restart(IF take THEN pop_customer_request(shop) ELSE shop)
    /\ last_op' = "switched_and_restart"
    /\ UNCHANGED << actor_vars, notification, dialogue, animation, desk, save_scene >>

ShopNext == ShopSceneFrame \/ SwitchedAndRestart

ShopSpec == ShopStart /\ [][ShopNext]_vars

----------------------------------------------------------------------------
(* DayEndSpec: the same scene late in the day, five minutes before 18:00,  *)
(* with two customers waiting at the counter.                              *)

\* the frame after the 119th regular advance of a day without a visit to
\* the main desk: 8:00 and 119 times five minutes is 17:55
DayEndStartClock == 119 * 40 + 1

\* a customer that has arrived at the counter and not been drained yet
WaitingCustomer == OneFrameOn(OneFrameOn(ApproachingCustomer))

DayEndStart ==
    /\ RestOfShopInit
    /\ shop = [ShopScene_new EXCEPT
                   !.clock = DayEndStartClock,
                   !.shop_clock = ShopClock_new(17, 55),
                   !.character_group = CharacterGroup_new,
                   !.customer_queue = << Named(WaitingCustomer, 1),
                                         Named(WaitingCustomer, 2) >>,
                   !.customer_request_queue = << 1, 2 >>,
                   !.n_spawned = 2,
                   !.queued_log = << 1, 2 >>,
                   !.request_log = << 1, 2 >>]

DayEnterClocks == DayEndStartClock .. (DayEndStartClock + MaxDayEnter)

DayEndFrame ==
    ShopSceneFrameUntil(DayEndStartClock, DayEndStartClock + MaxDayFrames, DayEnterClocks)

DayEndNext == DayEndFrame \/ SwitchedAndRestart

DayEndSpec == DayEndStart /\ [][DayEndNext]_vars

----------------------------------------------------------------------------
(* NotifySpec: the notification area of the shop scene frame after frame.  *)
(* A frame of the scene inserts notifications (a customer calls, the clock *)
(* passes twelve) and then updates the area.  inserted is history: the     *)
(* contents inserted so far with the tick of the insertion.                *)

NotifyStart ==
    /\ SpeedInit /\ SchedInit /\ CustomerInit /\ FarApartInit /\ MapInit /\ DreamInit
    /\ customer.character.map_position.current = Vec(-3, -4)
    /\ last_op = "init"
    /\ shop = None
    /\ notification = [area |-> NotificationArea_new, clock |-> 0, inserted |-> << >>]
    /\ dialogue = None
    /\ animation = None
    /\ desk = None
    /\ save_scene = None

\* the ticks at which the scene inserts: at the start, and around the ticks
\* at which the events of a notification inserted at the start are due
InsertClocks == { 0, 1, 60, 119, 120, 121, 140, 159, 160, 161, 200 }

\* the insertions of one frame: none, one, or two at once
NotifyFrame ==
    /\ notification.clock < MaxNotifyFrames
    /\ \E n \in 0 .. 2 :
           LET t  == notification.clock
               k  == Len(notification.inserted)
               a1 == IF n >= 1 THEN insert_new_contents(notification.area, k + 1, t)
                     ELSE notification.area
               a2 == IF n >= 2 THEN insert_new_contents(a1, k + 2, t) ELSE a1
           IN /\ n > 0 => (t \in InsertClocks /\ k + n <= MaxNotifications)
              /\ notification' =
                     [area     |-> NotificationArea_update(a2, t),
                      clock    |-> t + 1,
                      inserted |-> notification.inserted
                                   \o [i \in 1 .. n |-> [contents |-> k + i, at |-> t]]]
    /\ last_op' = "notify_frame"
    /\ UNCHANGED << actor_vars, shop, dialogue, animation, desk, save_scene >>

NotifyNext == NotifyFrame

NotifySpec == NotifyStart /\ [][NotifyNext]_vars

----------------------------------------------------------------------------
(* DialogueSpec: a customer comes to the desk at some tick and the         *)
(* silhouette is updated on every tick.  began is history: the tick of     *)
(* new_customer_update.                                                    *)

DialogueStart ==
    /\ SpeedInit /\ SchedInit /\ CustomerInit /\ FarApartInit /\ MapInit /\ DreamInit
    /\ customer.character.map_position.current = Vec(-3, -4)
    /\ last_op = "init"
    /\ shop = None
    /\ notification = None
    /\ dialogue = [silhouette |-> SuzuMiniSightSilhouette_new, clock |-> 0, began |-> None]
    /\ animation = None
    /\ desk = None
    /\ save_scene = None

\* dialogues of 1 to MaxLines lines, with a time step for every line or
\* for the first lines only
Dialogues ==
    { CustomerDialogue_new([i \in 1 .. n |-> i - 1], steps) :
          n \in 1 .. MaxLines,
          steps \in UNION { [1 .. m -> 0 .. MaxStep] : m \in 0 .. MaxLines } }

NewCustomerUpdate ==
    /\ dialogue.began = None
    /\ dialogue.clock <= MaxDialogueStart
    /\ \E d \in Dialogues :
           /\ Len(d.time_step) <= Len(d.dialogue)
           /\ dialogue' = [dialogue EXCEPT
                               !.silhouette = new_customer_update(@, d, dialogue.clock),
                               !.began = Some(dialogue.clock)]
    /\ last_op' = "new_customer_update"
    /\ UNCHANGED << actor_vars, shop, notification, animation, desk, save_scene >>

\* the span of the longest dialogue
DialogueEnd == MaxDialogueStart + MaxLines * MaxStep + 1

DialogueFrame ==
    /\ dialogue.clock < DialogueEnd
    /\ dialogue' = [dialogue EXCEPT
                        !.silhouette = silhouette_run_effect(@, dialogue.clock),
                        !.clock = @ + 1]
    /\ last_op' = "run_effect"
    /\ UNCHANGED << actor_vars, shop, notification, animation, desk, save_scene >>

DialogueNext == NewCustomerUpdate \/ DialogueFrame

DialogueSpec == DialogueStart /\ [][DialogueNext]_vars

----------------------------------------------------------------------------
(* AnimationSpec: an animation of two modes runs in Loop; its mode is      *)
(* changed once, at any tick, and try_next_frame is called on every tick.  *)
(* started, passes and shown are history: the type given to change_mode,   *)
(* the passes ended since, and the textures put on the object since.       *)

AnimationStart ==
    /\ SpeedInit /\ SchedInit /\ CustomerInit /\ FarApartInit /\ MapInit /\ DreamInit
    /\ customer.character.map_position.current = Vec(-3, -4)
    /\ last_op = "init"
    /\ shop = None
    /\ notification = None
    /\ dialogue = None
    /\ \E l0 \in 1 .. MaxTextures, l1 \in 1 .. MaxTextures, fs \in 1 .. MaxFrameSpeed :
           animation = [anim    |-> TextureAnimation_new(<< l0, l1 >>, 0, fs),
                        clock   |-> 0,
                        started |-> None,
                        passes  |-> 0,
                        shown   |-> << >>]
    /\ desk = None
    /\ save_scene = None

AnimationTypes == { OneShot, Loop } \cup { Times(0, lim) : lim \in 0 .. MaxLim }

ChangeMode ==
    /\ animation.started = None
    /\ \E mode \in 0 .. 1, t \in AnimationTypes, next_mode \in 0 .. 1 :
           animation' = [animation EXCEPT
                             !.anim = change_mode(@, mode, t, next_mode),
                             !.started = Some(t)]
    /\ last_op' = "change_mode"
    /\ UNCHANGED << actor_vars, shop, notification, dialogue, desk, save_scene >>

AnimationFrame ==
    /\ animation.clock < MaxAnimationFrames
    /\ LET a    == animation.anim
           runs == animation.clock % a.frame_speed = 0
           r    == SeqTexture_next_frame(a.textures[a.current_mode + 1], a.animation_type)
           next == try_next_frame(a, animation.clock)
       IN animation' = [animation EXCEPT
                            !.anim = next,
                            !.clock = @ + 1,
                            !.passes = IF runs /\ r.finished THEN @ + 1 ELSE @,
                            !.shown = IF runs /\ next.texture # a.texture
                                      THEN Append(@, next.texture) ELSE @]
    /\ last_op' = "try_next_frame"
    /\ UNCHANGED << actor_vars, shop, notification, dialogue, desk, save_scene >>

AnimationNext == ChangeMode \/ AnimationFrame

AnimationSpec == AnimationStart /\ [][AnimationNext]_vars

----------------------------------------------------------------------------
(* DeskSpec: objects are let go over the desk, stop one by one, and        *)
(* check_drop_desk collects them.  before and returned are history: the    *)
(* list before the last check_drop_desk and what it returned.              *)

DeskStart ==
    /\ SpeedInit /\ SchedInit /\ CustomerInit /\ FarApartInit /\ MapInit /\ DreamInit
    /\ customer.character.map_position.current = Vec(-3, -4)
    /\ last_op = "init"
    /\ shop = None
    /\ notification = None
    /\ dialogue = None
    /\ animation = None
    /\ desk = [sight    |-> SuzuMiniSight_new,
               n_added  |-> 0,
               before   |-> << >>,
               returned |-> << >>]
    /\ save_scene = None

\* the end of unselect_dragging_object: the object falls to the desk
UnselectDraggingObject ==
    /\ desk.n_added < MaxDeskObjects
    /\ desk' = [desk EXCEPT
                    !.sight.dropping_to_desk = Append(@, DeskObject_new(desk.n_added + 1)),
                    !.n_added = @ + 1]
    /\ last_op' = "unselect_dragging_object"
    /\ UNCHANGED << actor_vars, shop, notification, dialogue, animation, save_scene >>

\* the effect of a falling object ends its move
DroppingStops ==
    /\ \E i \in DOMAIN desk.sight.dropping_to_desk :
           /\ ~desk.sight.dropping_to_desk[i].stop
           /\ desk' = [desk EXCEPT !.sight.dropping_to_desk[i].stop = TRUE]
    /\ last_op' = "effect"
    /\ UNCHANGED << actor_vars, shop, notification, dialogue, animation, save_scene >>

CheckDropDesk ==
    /\ LET r == check_drop_desk(desk.sight)
       IN desk' = [desk EXCEPT
                       !.sight.dropping_to_desk = r.dropping_to_desk,
                       !.before = desk.sight.dropping_to_desk,
                       !.returned = r.drop_to_desk]
    /\ last_op' = "check_drop_desk"
    /\ UNCHANGED << actor_vars, shop, notification, dialogue, animation, save_scene >>

DeskNext == UnselectDraggingObject \/ DroppingStops \/ CheckDropDesk

DeskSpec == DeskStart /\ [][DeskNext]_vars

----------------------------------------------------------------------------
(* SaveSpec: the save scene runs frame by frame until post_process returns *)
(* a transition; the mouse is released up to MaxClicks times.  clicks and  *)
(* left are history: the ticks of the clicks on a slot or on the exit      *)
(* button, and the tick at which post_process returned the transition.     *)

SaveStart ==
    /\ SpeedInit /\ SchedInit /\ CustomerInit /\ FarApartInit /\ MapInit /\ DreamInit
    /\ customer.character.map_position.current = Vec(-3, -4)
    /\ last_op = "init"
    /\ shop = None
    /\ notification = None
    /\ dialogue = None
    /\ animation = None
    /\ desk = None
    /\ save_scene = [scene |-> SaveScene_new, clicks |-> << >>, left |-> None]

MouseButtonUpEvent ==
    /\ save_scene.left = None
    /\ Len(save_scene.clicks) < MaxClicks
    /\ \E target \in { "slot", "exit" } :
           save_scene' = [save_scene EXCEPT
                              !.scene = mouse_button_up_event(@, target),
                              !.clicks = Append(@, save_scene.scene.clock)]
    /\ last_op' = "mouse_button_up_event"
    /\ UNCHANGED << actor_vars, shop, notification, dialogue, animation, desk >>

SaveSceneFrame ==
    /\ save_scene.left = None
    /\ save_scene.scene.clock < MaxSaveFrames
    /\ LET t    == save_scene.scene.clock
           next == SaveScene_post_process(SaveScene_pre_process(save_scene.scene))
       IN save_scene' = [save_scene EXCEPT
                             !.scene = next,
                             !.left = IF next.scene_transition_type = Keep
                                      THEN None ELSE Some(t)]
    /\ last_op' = "save_scene_frame"
    /\ UNCHANGED << actor_vars, shop, notification, dialogue, animation, desk >>

SaveNext == MouseButtonUpEvent \/ SaveSceneFrame

SaveSpec == SaveStart /\ [][SaveNext]_vars

----------------------------------------------------------------------------
(* Claims *)

PendingIds == { owner.event_list[i].func.id : i \in DOMAIN owner.event_list }

TimesPending(id) ==
    Cardinality({ i \in DOMAIN owner.event_list : owner.event_list[i].func.id = id })

TimesRun(id) ==
    Cardinality({ i \in DOMAIN owner.run_log : owner.run_log[i].id = id })

\* C1: under any sequence of add_event and flush calls every added action
\* is either still in the list once or has run once, never both and never
\* twice; no action ran at a tick before its trigger tick; and a flush at a
\* tick that is not before any pending trigger tick leaves nothing pending.
C1_SchedulerExactlyOnce ==
    /\ \A id \in 1 .. owner.n_added : TimesPending(id) + TimesRun(id) = 1
    /\ \A i \in DOMAIN owner.run_log : owner.run_log[i].at >= owner.run_log[i].run_time
    /\ ( /\ last_op = "flush"
         /\ \A i \in DOMAIN owner.event_list :
                owner.event_list[i].run_time <= sched_clock )
       => owner.event_list = << >>

\* three actions added, two of them run (one of them later than its trigger
\* tick) and one still pending after a flush
C1_Witness ==
    /\ last_op = "flush"
    /\ owner.n_added = 3
    /\ Len(owner.run_log) = 2
    /\ Len(owner.event_list) = 1
    /\ \E i \in DOMAIN owner.run_log : owner.run_log[i].at > owner.run_log[i].run_time

\* C2: after any sequence of add_speed, set_speed, set_speed_x and
\* set_speed_y calls the stored velocity lies inside the SpeedBorder.
C2_SpeedWithinBorder ==
    /\ speed_info.speed_border.negative_x <= speed_info.speed.x
    /\ speed_info.speed.x <= speed_info.speed_border.positive_x
    /\ speed_info.speed_border.negative_y <= speed_info.speed.y
    /\ speed_info.speed.y <= speed_info.speed_border.positive_y

----------------------------------------------------------------------------
(* Claims about the customer's state machine *)

Status == customer.customer_status

\* the customer as its state machine finds it on a tick at the clock: moved
\* by the scene, its due events run
AtMatch ==
    flush_delay_event(
        customer_move_and_collision_check([customer EXCEPT !.request = None]), clock)

PositionOf(c) == get_map_position_with_collision_top_offset(c.character)

SpeedOf(c) == get_speed(c.character.speed_info)

DistanceSquared(c) ==
    LET dx == PositionOf(c).x - c.current_goal.x
        dy == PositionOf(c).y - c.current_goal.y
    IN dx * dx + dy * dy

TopEvent(c) == c.event_list[Len(c.event_list)]

\* the tick asked for a route and the route finder had none
RequestedUnreachable ==
    /\ last_op = "tick"
    /\ customer.request # None
    /\ unwrap(customer.request).route = None

\* waiting at the shelf with nothing scheduled that could end the wait
Stalled ==
    /\ Status = WaitOnBookShelf
    /\ customer.move_queue = << >>
    /\ \A i \in DOMAIN customer.event_list :
           customer.event_list[i].func.maybe_next_route = None

\* C3: a customer whose tick in Ready with an empty queue chose a
\* destination no route leads to is in WaitOnBookShelf after that tick, and
\* with no call from outside every later frame, up to the end of a run of more
\* than 1000 ticks, leaves it in WaitOnBookShelf: it never moves and nothing
\* panics.
C3_UnreachableStaysWaiting ==
    /\ [](RequestedUnreachable => Stalled)
    /\ [][Stalled => Stalled']_vars

\* the first request found no route and the customer still waits where it
\* started a thousand and more ticks later, its event long run
C3_Witness ==
    /\ Stalled
    /\ last_op = "tick"
    /\ clock >= 1000 + RouteDelay
    /\ customer.event_list = << >>
    /\ goal_log = << >>

\* a tick finds the customer Ready with nothing queued
ReadyEmptyTick ==
    /\ last_op' = "tick"
    /\ Status = Ready
    /\ customer.move_queue = << >>

\* a tick finds the route event of the customer due
DueTick ==
    /\ last_op' = "tick"
    /\ customer.event_list # << >>
    /\ TopEvent(customer).run_time <= clock

\* C4: a tick at t of a customer that is Ready with an empty queue ends in
\* WaitOnBookShelf with one event scheduled for t + 100 that carries the
\* route found; while the event is pending the state is WaitOnBookShelf and
\* the queue is empty, and no frame before t + 100 runs it; the first tick at
\* or after t + 100 runs it, and if it carries a route the customer is Ready
\* with exactly that route queued when its state is matched, so that it
\* leaves the tick Moving toward the first waypoint (or, for a route of no
\* waypoints, with the next request made).
C4_RouteArrivesAfterDelay ==
    /\ [](customer.event_list # << >> =>
              /\ Len(customer.event_list) = 1
              /\ Status = WaitOnBookShelf
              /\ customer.move_queue = << >>)
    /\ [][ReadyEmptyTick =>
              /\ Status' = WaitOnBookShelf
              /\ customer'.move_queue = << >>
              /\ customer'.request # None
              /\ customer'.event_list =
                     << [func     |-> [maybe_next_route |-> unwrap(customer'.request).route],
                         run_time |-> clock + RouteDelay] >>]_vars
    /\ [][(customer.event_list # << >> /\ TopEvent(customer).run_time > clock) =>
              /\ customer'.event_list = customer.event_list
              /\ Status' = WaitOnBookShelf]_vars
    /\ [][DueTick =>
              LET route == TopEvent(customer).func.maybe_next_route IN
              /\ TopEvent(customer) \notin SeqRange(customer'.event_list)
              /\ route = None => /\ Status' = WaitOnBookShelf
                                 /\ customer'.event_list = << >>
              /\ route # None =>
                     /\ AtMatch.customer_status = Ready
                     /\ AtMatch.move_queue = unwrap(route)
                     /\ IF unwrap(route) = << >>
                        THEN /\ Status' = WaitOnBookShelf
                             /\ Len(customer'.event_list) = 1
                             /\ TopEvent(customer').run_time = clock + RouteDelay
                        ELSE /\ Status' = Moving
                             /\ customer'.current_goal = Head(unwrap(route))
                             /\ customer'.move_queue = Tail(unwrap(route))]_vars

\* the request of tick 0 found a route of two waypoints, and the tick at 100
\* ran the event and sent the customer off to the first of them
C4_Witness ==
    /\ last_op = "tick"
    /\ clock = RouteDelay + 1
    /\ n_idle = 0
    /\ Status = Moving
    /\ customer.event_list = << >>
    /\ Len(enq_log) = 2
    /\ goal_log = << enq_log[1] >>
    /\ customer.move_queue = << enq_log[2] >>

\* C5: whatever the order of ticks and of calls of set_destination_forced,
\* the customer never has more than one route event scheduled and not run.
C5_AtMostOnePendingRouteEvent == Len(customer.event_list) <= 1

\* the tick finds the customer Moving when it matches the state
MovingTick == last_op' = "tick" /\ AtMatch.customer_status = Moving

\* C6: on a tick that finds the customer Moving and nearer than 1.5 to
\* current_goal, the position with the collision offset becomes current_goal,
\* the velocity (0, 0), and the state WaitOnClerk if the goal lies on the
\* counter tile and shopping is not done, Ready otherwise; on a tick that
\* finds it Moving at 1.5 or more, the state machine leaves state, position
\* and velocity as the scene's move left them.
C6_MovingArrival ==
    [][MovingTick =>
          IF DistanceSquared(AtMatch) < GoalRadius * GoalRadius
          THEN /\ PositionOf(customer') = customer.current_goal
               /\ customer'.current_goal = customer.current_goal
               /\ SpeedOf(customer') = Vec(0, 0)
               /\ Status' =
                      IF /\ map_position_to_tile_position(customer.current_goal)
                                = Some(CounterTile)
                         /\ ~customer.shopping_is_done
                      THEN WaitOnClerk
                      ELSE Ready
          ELSE /\ Status' = Moving
               /\ customer'.character = AtMatch.character
               /\ PositionOf(customer') =
                      Vec(PositionOf(customer).x + SpeedOf(customer).x,
                          PositionOf(customer).y + SpeedOf(customer).y)
               /\ SpeedOf(customer') = SpeedOf(customer)]_vars

\* the tick snapped the customer onto the counter waypoint from a position
\* off it
C6_Witness ==
    /\ last_op = "tick"
    /\ Status = WaitOnClerk
    /\ PositionOf(customer) = customer.current_goal
    /\ customer.current_goal = tile_position_to_map_position(CounterTile)
    /\ SpeedOf(customer) = Vec(0, 0)
    /\ customer.character.map_position.previous
           # customer.character.map_position.current

\* the tick finds the customer Ready with a waypoint queued
ReadyQueuedTick ==
    /\ last_op' = "tick"
    /\ AtMatch.customer_status = Ready
    /\ AtMatch.move_queue # << >>

\* v is the walking speed along the offset d, each component rounded
HeadsToward(v, d) ==
    IF d = Vec(0, 0) THEN v = Vec(0, 0)
    ELSE /\ v.x * d.x >= 0
         /\ v.y * d.y >= 0
         /\ 2 * Abs(v.x * d.y - v.y * d.x) <= Abs(d.x) + Abs(d.y)
         /\ (WalkSpeed - 1) * (WalkSpeed - 1) < v.x * v.x + v.y * v.y
         /\ v.x * v.x + v.y * v.y < (WalkSpeed + 1) * (WalkSpeed + 1)

\* C7: a tick that finds the customer Ready with a non-empty queue takes the
\* head waypoint off the queue, which gets one shorter and keeps the rest in
\* order, makes it current_goal, sets the velocity to the walking speed in
\* its direction, and leaves the customer Moving.
C7_ReadyDequeuesHead ==
    [][ReadyQueuedTick =>
          /\ customer'.move_queue = Tail(AtMatch.move_queue)
          /\ Len(customer'.move_queue) = Len(AtMatch.move_queue) - 1
          /\ customer'.current_goal = Head(AtMatch.move_queue)
          /\ Status' = Moving
          /\ PositionOf(customer') = PositionOf(AtMatch)
          /\ HeadsToward(SpeedOf(customer'),
                         Vec(customer'.current_goal.x - PositionOf(customer').x,
                             customer'.current_goal.y - PositionOf(customer').y))]_vars

\* the customer sets off on a diagonal to the first of two waypoints
C7_Witness ==
    /\ last_op = "tick"
    /\ Status = Moving
    /\ Len(customer.move_queue) = 1
    /\ goal_log = << customer.current_goal >>
    /\ SpeedOf(customer).x # 0
    /\ SpeedOf(customer).y # 0

\* C8: a tick never changes the state of a customer in WaitOnClerk, whatever
\* events of its own the tick flushes, and a call of set_destination_forced
\* changes it only if it finds a route.
C8_WaitOnClerkTerminal ==
    [][Status = WaitOnClerk =>
          \/ Status' = WaitOnClerk
          \/ /\ last_op' = "forced"
             /\ unwrap(customer'.request).route # None]_vars

\* C9: the values current_goal takes one after the other, followed by what
\* is still queued, are the waypoints in the order they were enqueued: none
\* skipped, repeated or out of order.
C9_QueueConsumedFifo ==
    /\ goal_log \o customer.move_queue = enq_log
    /\ goal_log # << >> => customer.current_goal = goal_log[Len(goal_log)]

\* both waypoints of a route have been the goal, in the order of the route
C9_Witness ==
    /\ Len(goal_log) = 2
    /\ goal_log[1] # goal_log[2]
    /\ goal_log = enq_log
    /\ customer.move_queue = << >>

\* C10: update_current_destination returns None for every destination while
\* the queue holds a waypoint, and every call of it made by a tick or by
\* set_destination_forced is made with the queue empty.
C10_RouteRequestedOnlyOnEmptyQueue ==
    /\ customer.move_queue # << >> =>
           \A dest \in Tiles : update_current_destination(customer, dest) = None
    /\ customer.request # None => unwrap(customer.request).qlen = 0

\* set_destination_forced met a queued waypoint, cleared it and then found
\* its route
C10_Witness ==
    /\ last_op = "forced"
    /\ customer.request # None
    /\ unwrap(customer.request).had > 0
    /\ unwrap(customer.request).qlen = 0
    /\ unwrap(customer.request).route # None
    /\ customer.move_queue = unwrap(unwrap(customer.request).route)

\* the event was scheduled by a tick at or after the last call of
\* set_destination_forced that found a route
ScheduledSinceForced(event) == event.run_time - RouteDelay >= unwrap(forced_at)

\* C11: once set_destination_forced has found a route, no tick enqueues a
\* waypoint of a route computed before that call: what a tick adds to the
\* queue comes only from events scheduled since the call, so every goal the
\* customer then heads for is of the forced route or of a later request.
C11_ForcedRouteDiscardsPrevious ==
    [][(last_op' = "tick" /\ forced_at # None) =>
          enq_log' = enq_log \o RoutesOf(SelectSeq(DueFromTop(customer.event_list, clock),
                                                   ScheduledSinceForced))]_vars

\* C12: a route event that comes due when the customer is no longer in
\* WaitOnBookShelf does nothing: the flush of a tick at the current clock
\* leaves the state and the waypoint queue of such a customer as they are
\* (and does not panic).
C12_StaleRouteEventIsNoOp ==
    Status \notin { WaitOnBookShelf, Panicked } =>
        LET flushed == flush_delay_event(customer, clock) IN
        /\ flushed.customer_status = Status
        /\ flushed.move_queue = customer.move_queue

\* the record a closure of the owner leaves when it is run at tick t
RunRecord(event, t) == [id |-> event.func.id, run_time |-> event.run_time, at |-> t]

\* C13: a flush at tick t takes the events from the top of the list one at a
\* time and runs each once, in that order, as long as their trigger tick is
\* not after t; the first event whose trigger tick is after t goes back on
\* top and the flush ends, leaving every event below it where it was,
\* whether due or not.
C13_FlushStopsAtFirstNotDue ==
    [][last_op' = "flush" =>
          LET list == owner.event_list
              due  == DueFromTop(list, sched_clock)
          IN /\ owner'.event_list = SubSeq(list, 1, Len(list) - Len(due))
             /\ owner'.run_log =
                    owner.run_log \o [i \in 1 .. Len(due) |-> RunRecord(due[i], sched_clock)]
             /\ Len(due) < Len(list) =>
                    list[Len(list) - Len(due)].run_time > sched_clock]_vars

\* the event added last was run by a flush that then met the second, not yet
\* due, put it back and ended above the first, which was due at that flush
C13_Witness ==
    /\ last_op = "flush"
    /\ owner.n_added = 3
    /\ Len(owner.run_log) = 1
    /\ owner.run_log[1].id = 3
    /\ Len(owner.event_list) = 2
    /\ owner.event_list[1].func.id = 1
    /\ owner.event_list[2].func.id = 2
    /\ owner.event_list[1].run_time <= owner.run_log[1].at
    /\ owner.event_list[2].run_time > sched_clock

\* C14: a tick does not run an event, due or not, that lies below an event
\* whose trigger tick is after the tick: it stays in the list where it was,
\* until a tick at or after that trigger tick.
C14_DueEventWaitsBehindNotDue ==
    [][last_op' = "tick" =>
          \A i, j \in DOMAIN customer.event_list :
              (i < j /\ customer.event_list[j].run_time > clock) =>
                  /\ i \in DOMAIN customer'.event_list
                  /\ customer'.event_list[i] = customer.event_list[i]]_vars

\* a tick at or after the trigger tick of the lower event left it under the
\* upper one, which was not due
C14_Witness ==
    /\ last_op = "tick"
    /\ Len(customer.event_list) = 2
    /\ customer.event_list[1].run_time < clock
    /\ customer.event_list[1].func.maybe_next_route # None
    /\ customer.event_list[2].run_time >= clock

----------------------------------------------------------------------------
(* Collision claims, over CollisionSpec *)

PlayerBox == get_collision_area(player)

NpcBox == get_collision_area(npc)

\* two intervals [lo, lo + len] share more than an end point
Penetrates(lo1, len1, lo2, len2) == lo1 < lo2 + len2 /\ lo2 < lo1 + len1

PenetratesX(a, b) == Penetrates(a.x, a.w, b.x, b.w)

PenetratesY(a, b) == Penetrates(a.y, a.h, b.y, b.h)

\* C15: for any two overlapping boxes, once the vertical (the horizontal)
\* correction the fix function returned has been applied to the actor the way
\* the scene applies it (added for a tile, subtracted for another character),
\* the two boxes no longer penetrate each other on that axis.
C15_CorrectionLeavesNoPenetration ==
    /\ (last_op = "query_character" /\ query_info.collision) =>
           /\ ~PenetratesX(get_collision_area(check_character_collision_x(player, npc)), NpcBox)
           /\ ~PenetratesY(get_collision_area(check_character_collision_y(player, npc)), NpcBox)
    /\ (last_op = "query_tiles" /\ query_info.collision) =>
           LET tile == unwrap(query_info.object1_position) IN
           /\ ~PenetratesX(get_collision_area(playable_check_collision_horizon(player)), tile)
           /\ ~PenetratesY(get_collision_area(playable_check_collision_vertical(player)), tile)

\* twice the centre of box b, less twice the centre of box a
TwiceCentreDiff(a, b) ==
    Vec((2 * b.x + b.w) - (2 * a.x + a.w), (2 * b.y + b.h) - (2 * a.y + a.h))

Sign(n) == IF n < 0 THEN -1 ELSE IF n > 0 THEN 1 ELSE 0

\* C16: when the collision boxes of two actors overlap, the center_diff that
\* check_collision_with_character reports is centre(box2) - centre(box1), and
\* so on each axis its sign is the side of box1's centre on which the centre
\* of box2 lies, whatever the sizes of the two boxes.
C16_CenterDiffIsCentreDifference ==
    (last_op = "query_character" /\ query_info.collision) =>
        LET twice == TwiceCentreDiff(PlayerBox, NpcBox)
            diff  == unwrap(query_info.center_diff)
        IN /\ 2 * diff.x = twice.x
           /\ 2 * diff.y = twice.y
           /\ Sign(diff.x) = Sign(twice.x)
           /\ Sign(diff.y) = Sign(twice.y)

\* a query has just been made and it found a collision
Collided == last_op \in { "query_character", "query_tiles" } /\ query_info.collision

\* C17: the correction is chosen by the sign of center_diff alone:
\* fix_collision_vertical gives the bottom-edge correction when
\* center_diff.y < 0, the top-edge correction when center_diff.y > 0 and
\* exactly 0 when center_diff.y = 0; fix_collision_horizon gives the
\* right-edge correction when center_diff.x < 0, the left-edge correction when
\* center_diff.x > 0 and exactly 0 when center_diff.x = 0.
C17_CorrectionChosenBySign ==
    Collided =>
        LET diff == unwrap(query_info.center_diff)
            got  == unwrap(fix_result)
        IN /\ diff.y < 0 => got.vertical = Some(fix_collision_bottom(player, query_info))
           /\ diff.y > 0 => got.vertical = Some(fix_collision_above(player, query_info))
           /\ diff.y = 0 => got.vertical = Some(0)
           /\ diff.x < 0 => got.horizon = Some(fix_collision_right(player, query_info))
           /\ diff.x > 0 => got.horizon = Some(fix_collision_left(player, query_info))
           /\ diff.x = 0 => got.horizon = Some(0)

\* a collision with center_diff.y < 0 and center_diff.x = 0: a bottom-edge
\* correction that is not 0, and no horizontal correction
C17_Witness ==
    /\ Collided
    /\ unwrap(query_info.center_diff).y < 0
    /\ unwrap(query_info.center_diff).x = 0
    /\ unwrap(fix_result).vertical = Some(fix_collision_bottom(player, query_info))
    /\ unwrap(fix_result).vertical # Some(0)
    /\ unwrap(fix_result).vertical # Some(fix_collision_above(player, query_info))
    /\ unwrap(fix_result).horizon = Some(0)

\* a query has just been made and it found no collision
NotCollided == last_op \in { "query_character", "query_tiles" } /\ ~query_info.collision

\* C18: fix_collision_vertical and fix_collision_horizon called with a
\* collision result whose collision flag is false fail (panic on the unwrap
\* of the missing center_diff) and return no correction offset.
C18_FixWithoutCollisionFails ==
    NotCollided =>
        /\ unwrap(fix_result).vertical = None
        /\ unwrap(fix_result).horizon = None

\* both fix functions were called on the result of a query of two characters
\* whose boxes are apart, and neither returned
C18_Witness ==
    /\ last_op = "query_character"
    /\ ~overlaps(PlayerBox, NpcBox)
    /\ query_info = new_not_collision
    /\ fix_result = Some([vertical |-> None, horizon |-> None])

\* the actor of the scenario: at map position (100, 100), a 40 x 40 sprite
\* with collision crop (0.1, 0.1)..(0.9, 0.9)
ScenarioActor(obj) ==
    /\ obj.map_position.current = Vec(1000, 1000)
    /\ obj.drawing_size = Vec(400, 400)
    /\ obj.collision_crop = Rect(1, 1, 9, 9)

ScenarioBlocker == NpcBox = Rect(1100, 1040, 320, 320)

\* the space between the right edge of box a and the left edge of box b
GapX(a, b) == b.x - (a.x + a.w)

\* C19: an actor at map position (100, 100) with a 40 x 40 sprite and
\* collision crop (0.1, 0.1)..(0.9, 0.9) has the collision box 32 x 32 at
\* (104, 104); when it overlaps a box at (110, 104, 32, 32) with
\* center_diff.x > 0 the horizontal correction is the left-edge one, and once
\* the scene has applied it the two boxes lie side by side with a gap of
\* exactly 0 or 0.5 units.
C19_ScenarioLeftEdgeCorrection ==
    /\ ScenarioActor(player) => PlayerBox = Rect(1040, 1040, 320, 320)
    /\ (ScenarioActor(player) /\ ScenarioBlocker /\ last_op = "query_character") =>
           /\ query_info.collision
           /\ unwrap(query_info.center_diff).x > 0
           /\ unwrap(fix_result).horizon = Some(fix_collision_left(player, query_info))
    /\ (ScenarioBlocker /\ last_op = "move_playable" /\ n_moves = 1
            /\ player.fixes # << >> /\ ScenarioActor([player EXCEPT
                   !.map_position.current = player.fixes[1].at])
            /\ get_speed(player.speed_info) = Vec(0, 0)) =>
           /\ ~PenetratesX(PlayerBox, NpcBox)
           /\ GapX(PlayerBox, NpcBox) \in { 0, 5 }

\* the scenario's actor has been moved one frame at speed 0 by the blocker:
\* one correction of -26.5 along x, and the boxes 0.5 apart
C19_Witness ==
    /\ ScenarioBlocker
    /\ last_op = "move_playable"
    /\ n_moves = 1
    /\ get_speed(player.speed_info) = Vec(0, 0)
    /\ player.fixes = << [offset |-> Vec(-265, 0), at |-> Vec(1000, 1000),
                         collided |-> TRUE] >>
    /\ PlayerBox = Rect(775, 1040, 320, 320)
    /\ GapX(PlayerBox, NpcBox) = 5

RECURSIVE SumOffsets(_)
\* the sum of the offsets of a sequence of logged corrections
SumOffsets(fixes) ==
    IF fixes = << >> THEN Vec(0, 0)
    ELSE LET rest == SumOffsets(Tail(fixes)) IN
         Vec(Head(fixes).offset.x + rest.x, Head(fixes).offset.y + rest.y)

\* the displacement move_map_current_speed_x and _y give the player from
\* position pos at speed v
Displacement(pos, v) ==
    Vec(IF pos.x + v.x > MapBorder THEN MapBorder - pos.x ELSE v.x,
        IF pos.y + v.y > MapBorder THEN MapBorder - pos.y ELSE v.y)

----------------------------------------------------------------------------
(* Claims about the order and the effects of the steps of one tick *)

\* C21: within one tick the steps of an actor come in the order velocity
\* update, position integration, collision query, collision correction,
\* animation/direction update, scheduler flush.  Velocity before integration:
\* a tick that gives a resting customer a speed moves it by that speed.  Flush
\* last: a tick that runs a due route event does nothing after it, so it ends
\* Ready with the whole route of the event queued.
C21_TickStepOrder ==
    [][last_op' = "tick" =>
         /\ (SpeedOf(customer) = Vec(0, 0) /\ SpeedOf(customer') # Vec(0, 0)) =>
                PositionOf(customer') =
                    Vec(PositionOf(customer).x + SpeedOf(customer').x,
                        PositionOf(customer).y + SpeedOf(customer').y)
         /\ (Status = WaitOnBookShelf /\ DueTick /\ TopEvent(customer).func.maybe_next_route # None) =>
                /\ customer'.customer_status = Ready
                /\ customer'.move_queue =
                       customer.move_queue \o unwrap(TopEvent(customer).func.maybe_next_route)]_vars

\* the places of the two characters
Places(pair) == << pair.player.map_position.current, pair.npc.map_position.current >>

\* C22: in every tick the positions of all actors are advanced before any
\* collision is resolved, so the positions at the end of the tick do not
\* depend on the order in which the actors are processed: a frame leaves the
\* player and the other character where the frame that processes the other
\* character first would leave them.
C22_FrameOrderIndependent ==
    [][last_op' = "frame" =>
         Places([player |-> player', npc |-> npc']) =
             Places(pre_process_group_first(
                        [player EXCEPT !.speed_info = player'.speed_info],
                        [npc EXCEPT !.speed_info = npc'.speed_info]))]_vars

\* C23: move_map(offset) sets previous to the value current had before the
\* call and current to that value plus offset, for every offset, the zero
\* offset too, and changes nothing else of the actor (velocity, display
\* position, animation).
C23_MoveMapShiftsTwoStepPoint ==
    [][last_op' = "move_map" =>
         LET offset == unwrap(last_arg')
             before == player.map_position.current
         IN /\ player'.map_position.previous = before
            /\ player'.map_position.current = Vec(before.x + offset.x, before.y + offset.y)
            /\ player' = [player EXCEPT !.map_position = player'.map_position]]_vars

\* two calls in a row, the second with the zero offset: previous has caught
\* up with current, and the display position still is the one of the start
C23_Witness ==
    /\ last_op = "move_map"
    /\ n_moves = 2
    /\ last_arg = Some(Vec(0, 0))
    /\ player.map_position.previous = player.map_position.current
    /\ player.position # map_to_display(player.map_position.current, SceneCamera)
    /\ player.position = player.last_position

\* C24: at the end of every simulation tick, current minus previous of an
\* actor's two-step point is the actor's total displacement during the tick:
\* its moves on both axes plus its collision corrections.
C24_DiffIsTickDisplacement ==
    [][last_op' = "tick" =>
         get_last_map_move_distance(customer'.character) =
             Vec(customer'.character.map_position.current.x
                     - customer.character.map_position.current.x,
                 customer'.character.map_position.current.y
                     - customer.character.map_position.current.y)]_vars

\* C25: undo_move() resets the actor's current map position to the previous
\* value, the one it had before the tentative move: a move_map followed by
\* undo_move leaves the actor at the position it had before the move.
C25_UndoMoveRestoresPosition ==
    [][(last_op = "move_map" /\ last_op' = "undo_move") =>
         player'.map_position.current = player.map_position.previous]_vars

----------------------------------------------------------------------------
(* Claims about apply_resistance, over FairResistSpec *)

ResistX == resist_info.speed.x

\* C26: apply_resistance decays the X speed toward zero by the horizontal
\* resistance step and never overshoots: the X speed never changes sign, a
\* speed of magnitude at most one step becomes exactly 0, a speed that is not
\* 0 gets smaller, a speed of 0 stays 0, and after finitely many calls the X
\* speed is 0 for good.
C26_ResistanceDecaysToZero ==
    /\ [][last_op' = "apply_resistance" =>
            /\ ResistX * ResistX' >= 0
            /\ Abs(ResistX) <= resist_info.horizon_resistance => ResistX' = 0
            /\ ResistX # 0 => Abs(ResistX') < Abs(ResistX)
            /\ ResistX = 0 => ResistX' = 0]_vars
    /\ <>[](ResistX = 0)

\* a speed of three steps has been brought to 0 in three calls and a fourth
\* call has left it there
C26_Witness ==
    /\ last_op = "apply_resistance"
    /\ resist_clock = 4
    /\ resist_info.horizon_resistance = 1
    /\ resist_info.speed_border = WideSpeedBorder
    /\ \E start \in ResistStarts :
           /\ start.speed.x = -3
           /\ apply_resistance(start, 0).speed.x = -2
           /\ resist_info =
                  apply_resistance(apply_resistance(apply_resistance(
                      apply_resistance(start, 0), 1), 2), 3)
    /\ ResistX = 0

----------------------------------------------------------------------------
(* Claims about the heading of a customer, over HeadingSpec *)

\* the animation modes whose sector holds the angle: up 0, left 3, down 1,
\* right 2
Sectors(rad) ==
    (IF rad >= 45000 /\ rad < 135000 THEN { 0 } ELSE { })
        \cup (IF rad >= 135000 /\ rad < 225000 THEN { 3 } ELSE { })
        \cup (IF rad >= 225000 /\ rad < 315000 THEN { 1 } ELSE { })
        \cup (IF rad < 45000 \/ rad >= 315000 THEN { 2 } ELSE { })

\* the side the offset points to, by its components: the sector of its angle
SideOf(offset) ==
    IF offset.y >= Abs(offset.x) /\ offset.y > -offset.x THEN 0
    ELSE IF -offset.x >= Abs(offset.y) /\ offset.y > offset.x THEN 3
    ELSE IF -offset.y >= Abs(offset.x) /\ offset.y < -offset.x THEN 1
    ELSE 2

----------------------------------------------------------------------------
(* Claims about the tile map, over TileMapSpec *)

AllPassable(grid) == \A tp \in TilesOf(grid) : PassableOf(grid, tp)

\* the number of steps between two tiles, by growing the set of tiles
\* reached one step at a time
RECURSIVE StepsFrom(_, _, _, _, _)
StepsFrom(grid, seen, frontier, goal, steps) ==
    IF goal \in frontier THEN Some(steps)
    ELSE IF frontier = { } THEN None
    ELSE LET next == { n \in TilesOf(grid) :
                         /\ PassableOf(grid, n)
                         /\ n \notin seen
                         /\ \E f \in frontier : Abs(n.x - f.x) + Abs(n.y - f.y) = 1 }
         IN StepsFrom(grid, seen \cup next, next, goal, steps + 1)

Steps(grid, start, goal) ==
    IF ~PassableOf(grid, start) \/ ~PassableOf(grid, goal) THEN None
    ELSE StepsFrom(grid, { start }, { start }, goal, 0)

\* the route goes from start to goal by steps to a tile next to the one
\* before, over passable tiles only
IsFourConnectedPath(grid, start, goal, route) ==
    LET whole == << start >> \o route IN
    /\ whole[Len(whole)] = goal
    /\ \A i \in DOMAIN route :
           /\ PassableOf(grid, route[i])
           /\ Abs(whole[i + 1].x - whole[i].x) + Abs(whole[i + 1].y - whole[i].y) = 1

\* C28: find_shortest_route returns a shortest 4-connected path over passable
\* tiles: on a grid without obstacles its length is |dx| + |dy|, and on the
\* grid of five by five tiles blocked only at (2, 2) the route from (0, 2) to
\* (4, 2) has length 6.
C28_RouteIsShortest ==
    (last_op = "find_shortest_route") =>
        LET q     == unwrap(map_query)
            steps == Steps(q.grid, q.start, q.goal)
        IN /\ (map_result = None) <=> (steps = None)
           /\ map_result # None =>
                 /\ IsFourConnectedPath(q.grid, q.start, q.goal, unwrap(map_result))
                 /\ Len(unwrap(map_result)) = unwrap(steps)
           /\ (AllPassable(q.grid) /\ InGridOf(q.grid, q.start)) =>
                 /\ map_result # None
                 /\ Len(unwrap(map_result)) =
                        Abs(q.goal.x - q.start.x) + Abs(q.goal.y - q.start.y)
           /\ (q.grid = MiddleBlockedGrid /\ q.start = Vec(0, 2) /\ q.goal = Vec(4, 2)) =>
                 /\ map_result # None
                 /\ Len(unwrap(map_result)) = 6

\* the route around the blocked middle tile
C28_Witness ==
    /\ last_op = "find_shortest_route"
    /\ unwrap(map_query).grid = MiddleBlockedGrid
    /\ unwrap(map_query).start = Vec(0, 2)
    /\ unwrap(map_query).goal = Vec(4, 2)
    /\ map_result # None
    /\ Len(unwrap(map_result)) = 6
    /\ Vec(2, 2) \notin SeqRange(unwrap(map_result))

\* C29: for every tile t inside the grid bounds,
\* map_position_to_tile_position(tile_position_to_map_position(t)) is Some(t).
C29_TileRoundTrip ==
    (/\ last_op = "map_position_to_tile_position"
     /\ InGridOf(unwrap(map_query).grid, unwrap(map_query).tile)
     /\ unwrap(map_query).pos = tile_position_to_map_position(unwrap(map_query).tile))
        => map_result = Some(unwrap(map_query).tile)

\* the corner of the last tile of a grid of three by two tiles taken back
C29_Witness ==
    /\ last_op = "map_position_to_tile_position"
    /\ unwrap(map_query).grid = OpenGrid(3, 2)
    /\ unwrap(map_query).tile = Vec(2, 1)
    /\ unwrap(map_query).pos = Vec(2 * TileSize, TileSize)
    /\ map_result = Some(Vec(2, 1))

----------------------------------------------------------------------------
(* Claims about the callers of the corrections, over SceneSpec *)

FromCollision(fixes) == \A i \in DOMAIN fixes : fixes[i].collided

\* C30: every call site of fix_collision_vertical / fix_collision_horizon
\* checks the collision flag first: in no execution of the shop scene or of
\* the dream scene is a correction computed from a collision result whose
\* flag is false.
C30_CorrectionsOnlyFromCollisions ==
    /\ FromCollision(player.fixes)
    /\ FromCollision(npc.fixes)
    /\ FromCollision(dream_scene.player.fixes)

\* a shop frame in which the player was corrected along both axes
C30_Witness ==
    /\ last_op = "frame"
    /\ \E i \in DOMAIN player.fixes : player.fixes[i].offset.x # 0
    /\ \E i \in DOMAIN player.fixes : player.fixes[i].offset.y # 0
    /\ FromCollision(player.fixes)

\* a dream frame in which the player was put back on the ground
DreamPlayerLanded ==
    /\ last_op = "dream_frame"
    /\ dream_scene.player.fixes # << >>
    /\ dream_scene.player.position.y = 75

----------------------------------------------------------------------------
(* Claims about the walk of a customer, over WalkSpec *)

\* the square of the distance from the collision box's corner to current_goal
GoalDistance2(c) ==
    LET current == get_map_position_with_collision_top_offset(c.character)
        dx == current.x - c.current_goal.x
        dy == current.y - c.current_goal.y
    IN dx * dx + dy * dy

IsMoving == customer.customer_status = Moving

----------------------------------------------------------------------------
(* Claims on the shop scene *)

TimesLogged(log, name) == Cardinality({ i \in DOMAIN log : log[i] = name })

\* C32: every customer goes from the character group into the customer queue,
\* and has a request generated, at most once: shopping_is_done never goes
\* back to false, and a customer the scene-switch action has handed back to
\* the group is not WaitOnClerk and not in the queue again.
C32_QueuedAndAskedOnce ==
    [][/\ \A before \in CustomersOf(shop), after \in CustomersOf(shop)' :
              (before.name = after.name /\ before.shopping_is_done)
                  => after.shopping_is_done
       /\ \A after \in CustomersOf(shop)' :
              /\ TimesLogged(shop'.queued_log, after.name) <= 1
              /\ TimesLogged(shop'.request_log, after.name) <= 1
              /\ after.name \in shop'.handed_back
                     => after.customer_status # WaitOnClerk
       /\ \A i \in DOMAIN shop'.customer_queue :
              shop'.customer_queue[i].name \notin shop'.handed_back]_vars

\* customer 1 has been queued, asked and handed back, has walked to the exit
\* and waits for its next route, and customer 3, served before, has walked
\* to the counter and waits for a route as well
C32_Witness ==
    /\ shop.handed_back = {1, 3}
    /\ TimesLogged(shop.request_log, 1) = 1
    /\ Len(shop.character_group) = 2
    /\ shop.customer_queue = << >>
    /\ \A i \in DOMAIN shop.character_group :
           /\ shop.character_group[i].customer_status = WaitOnBookShelf
           /\ shop.character_group[i].shopping_is_done
    /\ \E i \in DOMAIN shop.character_group :
           /\ shop.character_group[i].name = 3
           /\ map_position_to_tile_position(get_map_position_with_collision_top_offset(
                  shop.character_group[i].character)) = Some(CounterTile)
    /\ \E i \in DOMAIN shop.character_group :
           /\ shop.character_group[i].name = 1
           /\ map_position_to_tile_position(get_map_position_with_collision_top_offset(
                  shop.character_group[i].character)) = Some(ExitTile)

\* C33: the delayed scene-switch action never finds the customer queue empty,
\* so that pop_front().unwrap() does not panic, however long the player
\* stays on the event.
C33_SwitchActionFindsCustomer == ~shop.panicked

DayEndPending ==
    \E i \in DOMAIN shop.event_list : shop.event_list[i].func.kind = "day_end"

\* C34: once the shop clock reads 18:00 or later, the switch to DayResult is
\* on its way, scheduled or done, whatever mix of regular advances and of
\* advances by visits to the main desk brought the clock there.
C34_DayEndsAtOrPastSix ==
    (~shop.panicked
     /\ (equals(shop.shop_clock, 18, 0) \/ is_past(shop.shop_clock, 18, 0)))
        => (DayEndPending \/ shop.transition_scene = DayResult)

\* C35: the day's end is scheduled once: one day-end event is added and the
\* closing effect is started once for it.
C35_DayEndScheduledOnce ==
    /\ shop.n_day_end_events <= 1
    /\ Cardinality({ i \in DOMAIN shop.event_list :
                        shop.event_list[i].func.kind = "day_end" }) <= 1

----------------------------------------------------------------------------
(* Claims on the notification area *)

\* the notification inserted last
LastInserted == notification.inserted[Len(notification.inserted)]

\* the ticks the area has been updated at are 0 .. notification.clock - 1
UpdatedThrough(t) == notification.clock > t

----------------------------------------------------------------------------
(* Claims on the customer dialogue *)

RECURSIVE SumOfSteps(_, _)
SumOfSteps(d, i) ==
    IF i < 0 THEN 0
    ELSE SumOfSteps(d, i - 1) + (IF i + 1 \in DOMAIN d.time_step THEN d.time_step[i + 1] ELSE 0)

\* the tick line i of the dialogue is to be shown at
ShownAt(i) ==
    unwrap(dialogue.began) + SumOfSteps(dialogue.silhouette.customer_dialogue, i)

\* C37: new_customer_update at tick t schedules one event per line; line i
\* is put in the balloon at t plus the time steps of lines 0 to i, the lines
\* come in the order of the dialogue, and the last line is the one left in
\* the balloon.
C37_LinesShownInOrderAtTheirTicks ==
    dialogue.began # None =>
        LET self  == dialogue.silhouette
            lines == 0 .. (Len(self.customer_dialogue.dialogue) - 1)
        IN /\ Len(self.event_list) + Len(self.shown) = Cardinality(lines)
           /\ \A i \in lines :
                  dialogue.clock > ShownAt(i)
                      => \E k \in DOMAIN self.shown :
                             self.shown[k] = [line |-> i, at |-> ShownAt(i)]
           /\ \A k \in DOMAIN self.shown :
                  /\ self.shown[k].at = ShownAt(self.shown[k].line)
                  /\ \A j \in DOMAIN self.shown :
                         j < k => self.shown[j].line < self.shown[k].line
           /\ self.event_list = << >>
                  => self.text = Some(Len(self.customer_dialogue.dialogue) - 1)

----------------------------------------------------------------------------
(* Claims on the texture animation *)

AnimationStarted == unwrap(animation.started)

BackInLoop ==
    /\ animation.anim.animation_type = Loop
    /\ animation.anim.current_mode = animation.anim.next_mode

\* C38: an animation started with OneShot is in Loop on next_mode once one
\* pass has ended; an animation started with Times(0, lim), lim at least 1,
\* ends no more than lim passes and is in Loop on next_mode once lim passes
\* have ended.
C38_AnimationEndsAfterItsPasses ==
    animation.started # None =>
        /\ (AnimationStarted.kind = "OneShot" /\ animation.passes >= 1) => BackInLoop
        /\ AnimationStarted.kind = "OneShot" => animation.passes <= 1
        /\ (AnimationStarted.kind = "Times" /\ AnimationStarted.lim >= 1)
               => /\ animation.passes <= AnimationStarted.lim
                  /\ animation.passes >= AnimationStarted.lim => BackInLoop

\* the part of C38 on OneShot and on Times(0, 1)
C38_SinglePassEnds ==
    (/\ animation.started # None
     /\ \/ AnimationStarted.kind = "OneShot"
        \/ AnimationStarted.kind = "Times" /\ AnimationStarted.lim <= 1)
        => /\ animation.passes <= 1
           /\ animation.passes = 1 => BackInLoop

----------------------------------------------------------------------------
(* Claims on the objects dropping to the desk *)

IdsOf(objects) == { objects[i].id : i \in DOMAIN objects }

\* what check_drop_desk returns is stopped, and the objects it returns and
\* the objects it leaves are the objects of the list before, each once
NothingLostOrReturnedTwice ==
    last_op = "check_drop_desk" =>
        /\ \A i \in DOMAIN desk.returned : desk.returned[i].stop
        /\ IdsOf(desk.returned) \cap IdsOf(desk.sight.dropping_to_desk) = { }
        /\ IdsOf(desk.returned) \cup IdsOf(desk.sight.dropping_to_desk)
               = IdsOf(desk.before)
        /\ Len(desk.returned) + Len(desk.sight.dropping_to_desk) = Len(desk.before)

\* C39: after check_drop_desk no stopped object is left in dropping_to_desk,
\* every returned object is stopped, and no object is lost or returned twice.
C39_CheckDropDeskTakesEveryStopped ==
    last_op = "check_drop_desk" =>
        /\ \A i \in DOMAIN desk.sight.dropping_to_desk :
               ~desk.sight.dropping_to_desk[i].stop
        /\ \A i \in DOMAIN desk.returned : desk.returned[i].stop
        /\ IdsOf(desk.returned) \cap IdsOf(desk.sight.dropping_to_desk) = { }
        /\ IdsOf(desk.returned) \cup IdsOf(desk.sight.dropping_to_desk)
               = IdsOf(desk.before)
        /\ Len(desk.returned) + Len(desk.sight.dropping_to_desk) = Len(desk.before)

----------------------------------------------------------------------------
(* Claims on the save scene *)

\* the tick of the first click on a slot or on the exit button
FirstClick == save_scene.clicks[1]

\* the scene is never left without a click, and a click makes it leave
LeavesOnlyAfterClick ==
    save_scene.left # None => save_scene.clicks # << >>

\* C40: when the scene is left after a click at tick t on a slot or on the
\* exit button, the transition is returned at tick t + 31 or later.
C40_TransitionAfterClosingEffect ==
    save_scene.left # None => unwrap(save_scene.left) >= FirstClick + 31

====
